---- MODULE Spec2Model ----
(***************************************************************************)
(* A model of the TypeORM metadata builder (EntityMetadataBuilder.build)   *)
(* and of the PostgreSQL driver (PostgresDriver): its value codec, its     *)
(* type names, its query parameters and its connection pools.              *)
(*                                                                         *)
(* Objects with identity (ColumnMetadata, RelationMetadata, IndexMetadata) *)
(* live in heaps (sequences); a reference is an index into the heap and 0  *)
(* is `undefined`.  The entity metadatas are the sequence `ems`; a         *)
(* reference to an entity metadata is its index in `ems` (the builder only *)
(* ever appends to that array).  A junction entity metadata, which may     *)
(* never be pushed to `ems`, is referred to by its index in `junctions`.   *)
(***************************************************************************)
EXTENDS Integers, Sequences, FiniteSets, TLC

VARIABLES
    proto,      \* class -> its super class (the JavaScript prototype chain)
    storage,    \* the MetadataArgsStorage handed to the builder
    pc,         \* the pass build() is in
    idx,        \* position of the forEach of the current pass
    snap,       \* length of the array the current forEach iterates over
    ems,        \* entityMetadatas: the working set, later the returned set
    cols,       \* heap of ColumnMetadata
    rels,       \* heap of RelationMetadata
    inds,       \* heap of IndexMetadata
    junctions,  \* every junction entity metadata the junction builder made
    error,      \* what build() threw, NoError while it has not thrown
    run,        \* 1 in the first build() over the storage, 2 in the second
    first,      \* the result of the first build()
    storage0,   \* the storage as it was before the first build()
    column,     \* the ColumnMetadata handed to the value codec
    value,      \* the entity value handed to preparePersistentValue
    persisted,  \* what preparePersistentValue returned
    raw,        \* the stored value handed to prepareHydratedValue
    hydrated,   \* what prepareHydratedValue returned
    cpc,        \* where the value is on its way to the database and back
    columnType, \* the column type handed to normalizeType
    normalized, \* what normalizeType returned
    renormalized, \* what normalizeType returned for its own result
    tpc,        \* how often normalizeType has been applied
    query,      \* the arguments of escapeQueryWithParameters
    escaped,    \* what escapeQueryWithParameters returned
    qpc,        \* whether escapeQueryWithParameters has been called
    options,    \* the driver's options and the extensions its entities need
    master,     \* the master pool, 0 while it is not set
    slaves,     \* the slave pools
    pools,      \* every pool ever created: "open" or "ended"
    connectedQueryRunners, \* the number of connected query runners
    call,       \* the driver method that is running and where it is
    outcome,    \* how the last call of a driver method ended
    logged,     \* the entries written to the logger
    attempted,  \* the extensions afterConnect has tried to install
    released    \* how often afterConnect has released its connection

buildVars == <<proto, storage, pc, idx, snap, ems, cols, rels, inds,
               junctions, error, run, first, storage0>>

codecVars == <<column, value, persisted, raw, hydrated, cpc>>

typeVars == <<columnType, normalized, renormalized, tpc>>

queryVars == <<query, escaped, qpc>>

driverVars == <<options, master, slaves, pools, connectedQueryRunners, call,
                outcome, logged, attempted, released>>

(* what a step of build() leaves alone, and what a step of the codec does *)
notBuildVars == <<codecVars, typeVars, queryVars, driverVars>>

notCodecVars == <<buildVars, typeVars, queryVars, driverVars>>

-----------------------------------------------------------------------------
(* Values standing for JavaScript's undefined.                             *)

NoClass == "<none>"
NoError == [kind |-> "none", entity |-> "", path |-> ""]
NoList  == [def |-> FALSE, val |-> <<>>]
List(s) == [def |-> TRUE, val |-> s]

(* `a ?? []` *)
OrEmpty(l) == IF l.def THEN l.val ELSE <<>>

-----------------------------------------------------------------------------
(* Sequence helpers (Array.prototype.filter / find / indexOf / map).       *)

RECURSIVE SelectIdx(_, _, _)
SelectIdx(s, Test(_), i) ==
    IF i > Len(s) THEN <<>>
    ELSE (IF Test(s[i]) THEN <<s[i]>> ELSE <<>>) \o SelectIdx(s, Test, i + 1)

Filter(s, Test(_)) == SelectIdx(s, Test, 1)

RECURSIVE FindFrom(_, _, _)
FindFrom(s, Test(_), i) ==
    IF i > Len(s) THEN 0
    ELSE IF Test(s[i]) THEN i ELSE FindFrom(s, Test, i + 1)

(* index of the first element passing Test, 0 when there is none *)
FindIndex(s, Test(_)) == FindFrom(s, Test, 1)

Contains(s, x) == \E i \in 1..Len(s) : s[i] = x

Range(s) == {s[i] : i \in 1..Len(s)}

Map(s, F(_)) == [i \in 1..Len(s) |-> F(s[i])]

-----------------------------------------------------------------------------
(* The metadata-args records (plain declarative input).                    *)

Classes == {"Root", "Mid", "Child", "Post", "Category", "Link", "Ghost",
            "Order", "City", "Base", "Photo", "Question", "Info", "Meta"}

ClassType(c)  == [kind |-> "class", ref |-> c]
StringType(s) == [kind |-> "string", ref |-> s]

TableArgs(target, type, name) ==
    [target |-> target, type |-> type, name |-> name]

InheritanceArgs(target, hasColumn, columnName) ==
    [target |-> target, pattern |-> "STI",
     column |-> [def |-> hasColumn, name |-> columnName]]

ColumnArgs(target, propertyName, primary, nullable, default) ==
    [target |-> target, propertyName |-> propertyName, mode |-> "regular",
     primary |-> primary, nullable |-> nullable, default |-> default,
     name |-> ""]

RelationArgs(target, propertyName, relationType, type, inverseSide) ==
    [target |-> target, propertyName |-> propertyName,
     relationType |-> relationType, type |-> type,
     inverseSide |-> inverseSide]

JoinTableArgs(target, propertyName, name) ==
    [target |-> target, propertyName |-> propertyName, name |-> name]

IndexArgs(target, columns, unique) ==
    [target |-> target, columns |-> columns, unique |-> unique]

EmbeddedArgs(target, propertyName, type) ==
    [target |-> target, propertyName |-> propertyName, type |-> type]

GeneratedArgs(target, propertyName, strategy) ==
    [target |-> target, propertyName |-> propertyName,
     strategy |-> strategy]

ForeignKeyArgs(target, propertyName, type, inverseSide, columnNames, referencedColumnNames) ==
    [target |-> target, propertyName |-> propertyName, type |-> type,
     inverseSide |-> inverseSide, columnNames |-> columnNames,
     referencedColumnNames |-> referencedColumnNames, name |-> ""]

TreeArgs(target, type) == [target |-> target, type |-> type]

EmptyStorage ==
    [tables |-> <<>>, inheritances |-> <<>>, columns |-> <<>>,
     relations |-> <<>>, joinTables |-> <<>>, indices |-> <<>>,
     generations |-> <<>>, foreignKeys |-> <<>>, embeddeds |-> <<>>,
     trees |-> <<>>]

NoProto == [c \in Classes |-> NoClass]

(* `IF b THEN <<x>> ELSE <<>>`: an optional declaration *)
Opt(b, x) == IF b THEN <<x>> ELSE <<>>

-----------------------------------------------------------------------------
(* Input families.  Each yields [proto, storage]: a class hierarchy and    *)
(* the declarations made on it, in decoration order (a super class is      *)
(* decorated before its sub classes).                                      *)

(* Single-table inheritance: Root (STI) <- [Mid <-] Child (entity-child);  *)
(* Root may embed Info, which embeds Meta.                                 *)
StiInput(midKind, disc, userTypeCol, userIdx, gen, withRoot, childRel, embedded) ==
    [proto |->
        [NoProto EXCEPT
            !["Child"] = IF midKind = "absent" THEN "Root" ELSE "Mid",
            !["Mid"] = "Root"],
     storage |->
        [EmptyStorage EXCEPT
            !.tables =
                Opt(withRoot, TableArgs("Root", "regular", ""))
                \o Opt(midKind = "child", TableArgs("Mid", "entity-child", ""))
                \o <<TableArgs("Child", "entity-child", "")>>,
            !.inheritances =
                <<InheritanceArgs("Root", disc # "none",
                                  IF disc = "named" THEN "kind" ELSE "")>>,
            !.columns =
                <<ColumnArgs("Root", "id", TRUE, FALSE, "")>>
                \o Opt(userTypeCol, ColumnArgs("Root", "type", FALSE, TRUE, ""))
                \o Opt(midKind # "absent",
                       ColumnArgs("Mid", "m", FALSE, FALSE, ""))
                \o <<ColumnArgs("Child", "extra", FALSE, FALSE, "")>>
                \o Opt(embedded, ColumnArgs("Info", "note", FALSE, FALSE, ""))
                \o Opt(embedded, ColumnArgs("Meta", "tag", FALSE, FALSE, "")),
            !.embeddeds =
                Opt(embedded, EmbeddedArgs("Root", "info", "Info"))
                \o Opt(embedded, EmbeddedArgs("Info", "meta", "Meta")),
            !.relations =
                Opt(childRel, RelationArgs("Child", "peers", "many-to-many",
                                           ClassType("Child"), "")),
            !.joinTables =
                Opt(childRel, JoinTableArgs("Child", "peers", "")),
            !.indices =
                CASE userIdx = "none" -> <<>>
                  [] userIdx = "type" -> <<IndexArgs("Root", <<"type">>, FALSE)>>
                  [] userIdx = "kind" -> <<IndexArgs("Root", <<"kind">>, FALSE)>>
                  [] OTHER -> <<IndexArgs("Root", <<"id", "type">>, FALSE)>>,
            !.generations =
                Opt(gen # "none", GeneratedArgs("Root", "id", gen))]]

StiInputs ==
    {StiInput(midKind, disc, userTypeCol, userIdx, gen, withRoot, childRel,
              embedded) :
        midKind \in {"absent", "abstract", "child"},
        disc \in {"none", "default", "named"},
        userTypeCol \in BOOLEAN,
        userIdx \in {"none", "type", "kind", "pair"},
        gen \in {"none", "increment", "uuid"},
        withRoot \in BOOLEAN,
        childRel \in BOOLEAN,
        embedded \in BOOLEAN}

(* Many-to-many between Post and Category, with an optional user-defined   *)
(* entity Link whose table name may equal the junction's.                  *)
ManyToManyInput(typeA, jtA, sideB, link) ==
    [proto |-> NoProto,
     storage |->
        [EmptyStorage EXCEPT
            !.tables =
                <<TableArgs("Post", "regular", ""),
                  TableArgs("Category", "regular", "cat_tbl")>>
                \o Opt(link # "absent", TableArgs("Link", "regular", link)),
            !.columns =
                <<ColumnArgs("Post", "id", TRUE, FALSE, ""),
                  ColumnArgs("Category", "id", TRUE, FALSE, "")>>
                \o Opt(link # "absent",
                       ColumnArgs("Link", "id", TRUE, FALSE, "")),
            !.relations =
                <<RelationArgs("Post", "categories", "many-to-many", typeA,
                               IF sideB = "none" THEN "" ELSE "posts")>>
                \o Opt(sideB # "none",
                       RelationArgs("Category", "posts", "many-to-many",
                                    ClassType("Post"), "categories")),
            !.joinTables =
                Opt(jtA # "none",
                    JoinTableArgs("Post", "categories",
                                  IF jtA = "named" THEN "link" ELSE ""))
                \o Opt(sideB = "owner",
                       JoinTableArgs("Category", "posts", ""))]]

ManyToManyInputs ==
    {ManyToManyInput(typeA, jtA, sideB, link) :
        typeA \in {ClassType("Category"), StringType("Category"),
                   StringType("cat_tbl"), StringType("Ghost"),
                   ClassType("Ghost")},
        jtA \in {"none", "default", "named"},
        sideB \in {"none", "inverse", "owner"},
        link \in {"absent", "link", "Post_categories_cat_tbl", "other"}}

(* An explicit foreign-key declaration on Order referring to City.         *)
ForeignKeyInput(type, propertyName, inverseSide, columnNames, referencedColumnNames) ==
    [proto |-> NoProto,
     storage |->
        [EmptyStorage EXCEPT
            !.tables =
                <<TableArgs("City", "regular", "city_tbl"),
                  TableArgs("Order", "regular", "")>>,
            !.columns =
                <<ColumnArgs("City", "id", TRUE, FALSE, ""),
                  ColumnArgs("City", "code", FALSE, FALSE, ""),
                  ColumnArgs("Order", "id", TRUE, FALSE, ""),
                  ColumnArgs("Order", "cityId", FALSE, FALSE, "")>>,
            !.foreignKeys =
                <<ForeignKeyArgs("Order", propertyName, type, inverseSide,
                                 columnNames, referencedColumnNames)>>]]

ForeignKeyInputs ==
    {ForeignKeyInput(type, propertyName, inverseSide, columnNames,
                     referencedColumnNames) :
        type \in {ClassType("City"), StringType("city_tbl"),
                  ClassType("Ghost")},
        propertyName \in {"", "cityId"},
        inverseSide \in {"", "code", "nope"},
        columnNames \in {NoList, List(<<>>), List(<<"cityId">>),
                         List(<<"zip">>)},
        referencedColumnNames \in {NoList, List(<<>>), List(<<"id">>),
                                   List(<<"code">>), List(<<"nope">>)}}

(* Plain class inheritance: Photo and Question extend the non-entity Base. *)
PlainInput(basePrimary, photoPrimary, override, gen) ==
    [proto |-> [NoProto EXCEPT !["Photo"] = "Base", !["Question"] = "Base"],
     storage |->
        [EmptyStorage EXCEPT
            !.tables =
                <<TableArgs("Question", "regular", ""),
                  TableArgs("Photo", "regular", "")>>,
            !.columns =
                Opt(TRUE, ColumnArgs("Base", "id", basePrimary, FALSE, ""))
                \o <<ColumnArgs("Base", "title", FALSE, FALSE, "untitled")>>
                \o <<ColumnArgs("Base", "description", FALSE, TRUE, "")>>
                \o <<ColumnArgs("Question", "answers", FALSE, FALSE, "")>>
                \o <<ColumnArgs("Photo", "size", photoPrimary, FALSE, "")>>
                \o Opt(override # "none",
                       ColumnArgs("Photo", "title", FALSE, TRUE,
                                  IF override = "default" THEN "photo" ELSE "")),
            !.generations =
                Opt(gen # "none", GeneratedArgs("Base", "id", gen))]]

PlainInputs ==
    {PlainInput(basePrimary, photoPrimary, override, gen) :
        basePrimary \in BOOLEAN, photoPrimary \in BOOLEAN,
        override \in {"none", "default", "nodefault"},
        gen \in {"none", "increment", "identity", "uuid", "rowid"}}

(* A tree: Root declares a tree type; with single-table inheritance Child *)
(* extends Root and may declare a tree type of its own.  Post, an entity   *)
(* of its own, is declared last.                                           *)
TreeInput(rootTree, withChild, childTree, withPost) ==
    [proto |-> [NoProto EXCEPT !["Child"] = "Root"],
     storage |->
        [EmptyStorage EXCEPT
            !.tables =
                <<TableArgs("Root", "regular", "")>>
                \o Opt(withChild, TableArgs("Child", "entity-child", ""))
                \o Opt(withPost, TableArgs("Post", "regular", "")),
            !.inheritances =
                Opt(withChild, InheritanceArgs("Root", TRUE, "")),
            !.columns =
                <<ColumnArgs("Root", "id", TRUE, FALSE, ""),
                  ColumnArgs("Root", "name", FALSE, FALSE, "")>>
                \o Opt(withChild, ColumnArgs("Child", "extra", FALSE, FALSE, ""))
                \o Opt(withPost, ColumnArgs("Post", "id", TRUE, FALSE, "")),
            !.trees =
                Opt(rootTree # "", TreeArgs("Root", rootTree))
                \o Opt(withChild /\ childTree # "",
                       TreeArgs("Child", childTree))]]

TreeInputs ==
    {TreeInput(rootTree, withChild, childTree, withPost) :
        rootTree \in {"", "closure-table", "materialized-path", "nested-set"},
        withChild \in BOOLEAN,
        childTree \in {"", "closure-table", "nested-set"},
        withPost \in BOOLEAN}

(* A single-table child that declares the inheritance itself and extends   *)
(* no entity: the first entity whose inheritance tree holds it is itself.  *)
SelfParentInput(withColumn, disc, tree) ==
    [proto |-> NoProto,
     storage |->
        [EmptyStorage EXCEPT
            !.tables = <<TableArgs("Child", "entity-child", "")>>,
            !.inheritances = <<InheritanceArgs("Child", disc, "")>>,
            !.columns =
                Opt(withColumn, ColumnArgs("Child", "id", TRUE, FALSE, "")),
            !.trees = Opt(tree # "", TreeArgs("Child", tree))]]

SelfParentInputs ==
    {SelfParentInput(withColumn, disc, tree) :
        withColumn \in BOOLEAN, disc \in BOOLEAN,
        tree \in {"", "closure-table"}}

Inputs ==
    StiInputs \cup ManyToManyInputs \cup ForeignKeyInputs \cup PlainInputs
        \cup TreeInputs \cup SelfParentInputs

-----------------------------------------------------------------------------
(* MetadataUtils and MetadataArgsStorage queries.                          *)

RECURSIVE GetInheritanceTree(_)
(* [c, super(c), super(super(c)), ...] *)
GetInheritanceTree(c) ==
    IF c = NoClass THEN <<>> ELSE <<c>> \o GetInheritanceTree(proto[c])

(* c.prototype instanceof p: p is a proper ancestor of c *)
IsInherited(c, p) == Contains(Tail(GetInheritanceTree(c)), p)

FilterSingleTableChildren(target) ==
    Filter(storage.tables,
           LAMBDA t : t.type = "entity-child" /\ IsInherited(t.target, target))

(* index into storage.inheritances, 0 when the class declares none *)
FindInheritanceType(target) ==
    FindIndex(storage.inheritances, LAMBDA a : a.target = target)

(* index into storage.trees, 0 when the class declares no tree *)
FindTree(target) ==
    FindIndex(storage.trees, LAMBDA a : a.target = target)

(* Indices (into `array`) of the records declared on a class of `tree`,    *)
(* keeping for every property name only the first one, in storage order.   *)
FilterByTargetAndWithoutDuplicateProperties(array, tree) ==
    Filter([i \in 1..Len(array) |-> i],
           LAMBDA i :
               /\ Contains(tree, array[i].target)
               /\ \A j \in 1..(i - 1) :
                     Contains(tree, array[j].target)
                        => array[j].propertyName # array[i].propertyName)

(* Indices (into `array`) of the records declared on a class of `tree`.    *)
FilterByTarget(array, tree) ==
    Filter([i \in 1..Len(array) |-> i],
           LAMBDA i : Contains(tree, array[i].target))

FindJoinTable(target, propertyName) ==
    FindIndex(storage.joinTables,
              LAMBDA a : a.target = target /\ a.propertyName = propertyName)

FindGenerated(target, propertyName) ==
    FindIndex(storage.generations,
              LAMBDA a : a.target = target /\ a.propertyName = propertyName)

-----------------------------------------------------------------------------
(* Naming strategy: deterministic names derived from the logical names.    *)

NamingTableName(targetName, givenName) ==
    IF givenName # "" THEN givenName ELSE targetName

NamingColumnName(propertyName, givenName) ==
    IF givenName # "" THEN givenName ELSE propertyName

NamingJoinTableName(firstTableName, secondTableName, firstPropertyName) ==
    firstTableName \o "_" \o firstPropertyName \o "_" \o secondTableName

RECURSIVE JoinNames(_)
JoinNames(names) ==
    IF names = <<>> THEN "" ELSE "_" \o Head(names) \o JoinNames(Tail(names))

(* index and foreign-key names are derived from the table and the columns *)
NamingIndexName(tableName, columnNames) == "IDX_" \o tableName \o JoinNames(columnNames)

NamingForeignKeyName(tableName, columnNames, referencedTableName, referencedColumnNames) ==
    "FK_" \o tableName \o JoinNames(columnNames) \o "_" \o referencedTableName
        \o JoinNames(referencedColumnNames)

-----------------------------------------------------------------------------
(* Constructors of the metadata objects.                                   *)

NewEntityMetadata(tableArgs, inheritanceTree, tableTree, inheritancePattern) ==
    [target |-> tableArgs.target,
     name |-> tableArgs.target,
     targetName |-> tableArgs.target,
     tableType |-> tableArgs.type,
     givenTableName |-> tableArgs.name,
     tableName |-> "",
     inheritanceTree |-> inheritanceTree,
     inheritancePattern |-> inheritancePattern,
     treeType |-> tableTree,
     closureJunctionTable |-> 0,
     parentClosureEntityMetadata |-> 0,
     parentEntityMetadata |-> 0,
     childEntityMetadatas |-> <<>>,
     embeddeds |-> <<>>,
     ownColumns |-> <<>>, columns |-> <<>>,
     ownRelations |-> <<>>, relations |-> <<>>,
     ownIndices |-> <<>>, indices |-> <<>>,
     foreignKeys |-> <<>>,
     primaryColumns |-> <<>>,
     generatedColumns |-> <<>>,
     hasUUIDGeneratedColumns |-> FALSE,
     discriminatorColumn |-> 0,
     isJunction |-> FALSE,
     jid |-> 0]

NewColumnMetadata(entityName, args) ==
    [entity |-> entityName,
     embedded |-> "",
     target |-> args.target,
     propertyName |-> args.propertyName,
     givenDatabaseName |-> args.name,
     databaseName |-> "",
     isPrimary |-> args.primary,
     isNullable |-> args.nullable,
     default |-> args.default,
     isVirtual |-> args.mode = "virtual",
     isDiscriminator |-> FALSE,
     isGenerated |-> FALSE,
     generationStrategy |-> "",
     type |-> ""]

NewRelationMetadata(entityName, entityIndex, args) ==
    [entity |-> entityName,
     em |-> entityIndex,
     target |-> args.target,
     propertyName |-> args.propertyName,
     propertyPath |-> args.propertyName,
     relationType |-> args.relationType,
     type |-> args.type,
     givenInverseSide |-> args.inverseSide,
     inverseEntityMetadata |-> 0,
     inverseSidePropertyPath |-> "",
     inverseRelation |-> 0,
     junctionEntityMetadata |-> 0,
     registered |-> 0]

NewIndexMetadata(entityName, givenColumnNames, columns, unique, synthesized) ==
    [entity |-> entityName,
     givenColumnNames |-> givenColumnNames,
     columns |-> columns,
     isUnique |-> unique,
     synthesized |-> synthesized,
     name |-> ""]

-----------------------------------------------------------------------------
(* build(): creation of the entity metadatas and the inheritance links.    *)

RealTables ==
    Filter(storage.tables,
           LAMBDA t : t.type \in {"regular", "closure", "entity-child", "view"})

CreateEntityMetadata(tableArgs) ==
    LET inh == FindInheritanceType(tableArgs.target)
        pattern == IF inh = 0 THEN "" ELSE storage.inheritances[inh].pattern
        children ==
            IF pattern = "STI" \/ tableArgs.type = "entity-child"
            THEN Map(FilterSingleTableChildren(tableArgs.target),
                     LAMBDA t : t.target)
            ELSE <<>>
        tree == FindTree(tableArgs.target)
    IN  NewEntityMetadata(tableArgs,
                          GetInheritanceTree(tableArgs.target) \o children,
                          IF tree = 0 THEN "" ELSE storage.trees[tree].type,
                          pattern)

(* index in `all` of the STI entity metadata whose tree holds the target *)
ParentEntityMetadataOf(all, target) ==
    FindIndex(all, LAMBDA m : Contains(m.inheritanceTree, target)
                              /\ m.inheritancePattern = "STI")

ComputeParentEntityMetadata(all, em) ==
    IF em.tableType = "entity-child"
    THEN [em EXCEPT !.parentEntityMetadata = ParentEntityMetadataOf(all, em.target)]
    ELSE em

ChildEntityMetadatasOf(all, em) ==
    Filter([i \in 1..Len(all) |-> i],
           LAMBDA i : IsInherited(all[i].target, em.target))

(* The first three statements of build(): the skeletons, their parents and *)
(* their children.                                                         *)
CreateEntityMetadatas ==
    /\ pc = "create"
    /\ UNCHANGED notBuildVars
    /\ LET skeletons == Map(RealTables, CreateEntityMetadata)
           linked == Map(skeletons,
                         LAMBDA m : ComputeParentEntityMetadata(skeletons, m))
       IN  ems' = Map(linked,
                      LAMBDA m : [m EXCEPT !.childEntityMetadatas =
                                               ChildEntityMetadatasOf(linked, m)])
    /\ pc' = "step0"
    /\ idx' = 1
    /\ snap' = Len(ems')
    /\ UNCHANGED <<proto, storage, cols, rels, inds, junctions, error, run,
                   first, storage0>>

(* EntityMetadata.build(): the table name.  A single-table child uses the  *)
(* table of its parent.                                                    *)
EntityMetadataBuild(all, em) ==
    [em EXCEPT !.tableName =
        IF em.tableType = "entity-child" /\ em.parentEntityMetadata # 0
        THEN all[em.parentEntityMetadata].tableName
        ELSE NamingTableName(em.targetName, em.givenTableName)]

(* Both forEach loops of step 0: the non-children first, then the children *)
BuildStep0 ==
    /\ pc = "step0"
    /\ UNCHANGED notBuildVars
    /\ LET nonChildren == [i \in 1..Len(ems) |->
                              IF ems[i].tableType # "entity-child"
                              THEN EntityMetadataBuild(ems, ems[i]) ELSE ems[i]]
       IN  ems' = [i \in 1..Len(ems) |->
                      IF ems[i].tableType = "entity-child"
                      THEN EntityMetadataBuild(nonChildren, nonChildren[i])
                      ELSE nonChildren[i]]
    /\ pc' = "step1"
    /\ idx' = 1
    /\ UNCHANGED <<proto, storage, snap, cols, rels, inds, junctions, error,
                   run, first, storage0>>

-----------------------------------------------------------------------------
(* computeEntityMetadataStep1.                                             *)

TypeError(entityName) == [kind |-> "TypeError", entity |-> entityName, path |-> ""]

TypeORMError(entityName, path) ==
    [kind |-> "TypeORMError", entity |-> entityName, path |-> path]

NonChildren(all) ==
    Filter([i \in 1..Len(all) |-> i], LAMBDA i : all[i].tableType # "entity-child")

Children(all) ==
    Filter([i \in 1..Len(all) |-> i], LAMBDA i : all[i].tableType = "entity-child")

(* one forEach over the entities in the order of the array *)
Step1OrderOfOneLoop == [i \in 1..Len(ems) |-> i]

(* the order in which the two forEach loops of step 1 visit the entities *)
Step1Order == NonChildren(ems) \o Children(ems)

(* array.find on a heap-backed array: the first reference whose object     *)
(* passes Test, 0 (undefined) when none does                               *)
FindRef(refs, heap, Test(_)) ==
    LET k == FindIndex(refs, LAMBDA r : r # 0 /\ Test(heap[r]))
    IN  IF k = 0 THEN 0 ELSE refs[k]

(* the callback of array.find reads a property of an undefined element     *)
FindRefThrows(refs, heap, Test(_)) ==
    LET hole == FindIndex(refs, LAMBDA r : r = 0)
        hit == FindIndex(refs, LAMBDA r : r # 0 /\ Test(heap[r]))
    IN  hole # 0 /\ (hit = 0 \/ hole < hit)

(* A single-table child reuses the column its parent created for the       *)
(* property; undefined (0) when the parent has no such column.             *)
(* a lookup that takes the parent's first own column whatever its name *)
ReusedParentColumnFirst(parentOwnColumns, heap, propertyName) ==
    FindRef(parentOwnColumns, heap, LAMBDA c : TRUE)

ReusedParentColumn(parentOwnColumns, heap, propertyName) ==
    FindRef(parentOwnColumns, heap, LAMBDA c : c.propertyName = propertyName)

(* "for multiple table inheritance we can override default column values": *)
(* the default written into the args record at storage.columns[k]          *)
OverriddenDefault(columns, em, k) ==
    LET args == columns[k]
        childArgs == FindIndex(columns,
                               LAMBDA c : c.propertyName = args.propertyName
                                          /\ c.target = em.target)
    IN  IF /\ em.tableType = "regular"
           /\ args.target # em.target
           /\ childArgs # 0
           /\ columns[childArgs].default # ""
        THEN columns[childArgs].default
        ELSE args.default

(* no class taken for a single-table child *)
ColumnInSingleTableInheritedChildNever(all, args) == FALSE

(* every class taken for a single-table child *)
ColumnInSingleTableInheritedChildAlways(all, args) == TRUE

(* "if single table inheritance used, we need to mark all inherit table    *)
(* columns as nullable"                                                    *)
ColumnInSingleTableInheritedChild(all, args) ==
    \E j \in 1..Len(all) :
        all[j].tableType = "entity-child" /\ all[j].target = args.target

DiscriminatorColumnName(inheritanceArgs) ==
    IF inheritanceArgs.column.name # "" THEN inheritanceArgs.column.name ELSE "type"

NewDiscriminatorColumn(em, inheritanceArgs) ==
    [NewColumnMetadata(em.name,
        [target |-> em.target, propertyName |-> DiscriminatorColumnName(inheritanceArgs),
         mode |-> "virtual", primary |-> FALSE, nullable |-> FALSE,
         default |-> "", name |-> inheritanceArgs.column.name])
     EXCEPT !.isVirtual = TRUE, !.isDiscriminator = TRUE]

(* the parent's discriminator column added without looking for it *)
WithParentDiscriminatorAlways(ownColumns, discriminatorColumn) ==
    Append(ownColumns, discriminatorColumn)

(* ownColumns of a single-table child after the parent's discriminator     *)
(* column was added to it                                                  *)
WithParentDiscriminator(ownColumns, discriminatorColumn) ==
    IF discriminatorColumn # 0 /\ ~Contains(ownColumns, discriminatorColumn)
    THEN Append(ownColumns, discriminatorColumn)
    ELSE ownColumns

RECURSIVE CreateEmbeddedsRecursively(_, _, _)
(* [embeddeds, created]: the embedded metadatas of the declarations at     *)
(* `embeddedArgs` (positions in storage.embeddeds) and the ColumnMetadata   *)
(* made for them, which go to the column heap after position `base`        *)
CreateEmbeddedsRecursively(em, embeddedArgs, base) ==
    IF embeddedArgs = <<>> THEN [embeddeds |-> <<>>, created |-> <<>>]
    ELSE LET args == storage.embeddeds[Head(embeddedArgs)]
             targets == GetInheritanceTree(args.type)
             columnArgs == FilterByTargetAndWithoutDuplicateProperties(
                               storage.columns, targets)
             columns ==
                 [p \in 1..Len(columnArgs) |->
                     [NewColumnMetadata(em.name, storage.columns[columnArgs[p]])
                      EXCEPT !.embedded = args.propertyName]]
             sub == CreateEmbeddedsRecursively(
                        em,
                        FilterByTargetAndWithoutDuplicateProperties(
                            storage.embeddeds, targets),
                        base + Len(columns))
             rest == CreateEmbeddedsRecursively(
                         em, Tail(embeddedArgs),
                         base + Len(columns) + Len(sub.created))
         IN  [embeddeds |->
                  <<[propertyName |-> args.propertyName,
                     type |-> args.type,
                     columns |-> [p \in 1..Len(columns) |-> base + p],
                     embeddeds |-> sub.embeddeds]>> \o rest.embeddeds,
              created |-> columns \o sub.created \o rest.created]

(* "if single table inheritance is used, we need to mark all embedded      *)
(* columns as nullable": the columns of the entity's own embeddeds         *)
EmbeddedColumnsNullable(em, embeddeds, created, base) ==
    [p \in 1..Len(created) |->
        IF /\ em.inheritancePattern = "STI"
           /\ \E k \in 1..Len(embeddeds) : Contains(embeddeds[k].columns, base + p)
        THEN [created[p] EXCEPT !.isNullable = TRUE]
        ELSE created[p]]

IsEntityChild(em) == em.tableType = "entity-child"

(* the embeddeds of the entity and the column heap with their columns *)
Step1Embeddeds(em) ==
    LET embedded == CreateEmbeddedsRecursively(
                        em,
                        FilterByTargetAndWithoutDuplicateProperties(
                            storage.embeddeds, em.inheritanceTree),
                        Len(cols))
    IN  [embeddeds |-> embedded.embeddeds,
         cols |-> cols \o EmbeddedColumnsNullable(em, embedded.embeddeds,
                                                  embedded.created, Len(cols))]

(* the column declarations after the default override *)
Step1ColumnArgs(em, columnArgs) ==
    IF IsEntityChild(em) THEN storage.columns
    ELSE [k \in 1..Len(storage.columns) |->
             IF Contains(columnArgs, k)
             THEN [storage.columns[k] EXCEPT
                      !.default = OverriddenDefault(storage.columns, em, k)]
             ELSE storage.columns[k]]

(* ownColumns: a child reuses its parent's columns, every other entity     *)
(* creates its own; `cols0` is the heap after the embeddeds                *)
Step1OwnColumns(em, cols0) ==
    LET columnArgs == FilterByTargetAndWithoutDuplicateProperties(
                          storage.columns, em.inheritanceTree)
        columns1 == Step1ColumnArgs(em, columnArgs)
    IN  IF IsEntityChild(em)
        THEN [args |-> columns1,
              cols |-> cols0,
              own |-> [p \in 1..Len(columnArgs) |->
                          ReusedParentColumn(
                              ems[em.parentEntityMetadata].ownColumns, cols,
                              storage.columns[columnArgs[p]].propertyName)]]
        ELSE [args |-> columns1,
              cols |-> cols0 \o
                  [p \in 1..Len(columnArgs) |->
                      [NewColumnMetadata(em.name, columns1[columnArgs[p]]) EXCEPT
                          !.isNullable =
                              IF ColumnInSingleTableInheritedChild(
                                     ems, columns1[columnArgs[p]])
                              THEN TRUE
                              ELSE columns1[columnArgs[p]].nullable]],
              own |-> [p \in 1..Len(columnArgs) |-> Len(cols0) + p]]

(* the discriminator column of an entity that declares inheritance; `c` is *)
(* the outcome of Step1OwnColumns                                          *)
Step1Discriminator(em, c) ==
    LET inh == FindInheritanceType(em.target)
    IN  IF ~(inh # 0 /\ storage.inheritances[inh].column.def)
        THEN [throws |-> FALSE, cols |-> c.cols, own |-> c.own]
        ELSE LET discName == DiscriminatorColumnName(storage.inheritances[inh])
                 existing == FindRef(c.own, c.cols,
                                     LAMBDA col : col.propertyName = discName)
             IN  [throws |-> FindRefThrows(c.own, c.cols,
                                 LAMBDA col : col.propertyName = discName),
                  cols |-> IF existing = 0
                           THEN Append(c.cols,
                                    NewDiscriminatorColumn(
                                        em, storage.inheritances[inh]))
                           ELSE [c.cols EXCEPT ![existing].isDiscriminator = TRUE],
                  own |-> IF existing = 0
                          THEN Append(c.own, Len(c.cols) + 1)
                          ELSE c.own]

(* parentEntityMetadata.ownColumns as the child part reads it: `own`, the  *)
(* columns just assigned, when the entity is its own parent                *)
ParentOwnColumns(em, own) ==
    IF ems[em.parentEntityMetadata].target = em.target
    THEN own
    ELSE ems[em.parentEntityMetadata].ownColumns

(* the parent's discriminator column and inheritance pattern, taken over   *)
(* by a child; `d` is the outcome of Step1Discriminator                    *)
Step1Child(em, d) ==
    IF ~IsEntityChild(em)
    THEN [throws |-> FALSE, own |-> d.own, pattern |-> em.inheritancePattern,
          treeType |-> em.treeType]
    ELSE [throws |-> FindRefThrows(ParentOwnColumns(em, d.own),
                                   d.cols, LAMBDA col : col.isDiscriminator),
          own |-> WithParentDiscriminator(
                      d.own,
                      FindRef(ParentOwnColumns(em, d.own), d.cols,
                              LAMBDA col : col.isDiscriminator)),
          pattern |-> ems[em.parentEntityMetadata].inheritancePattern,
          treeType |-> IF em.treeType = ""
                          /\ ems[em.parentEntityMetadata].treeType # ""
                       THEN ems[em.parentEntityMetadata].treeType
                       ELSE em.treeType]

(* a virtual column of a tree: materialized path, nested-set left or right *)
NewTreeColumn(em, propertyName, nullable, default) ==
    [NewColumnMetadata(em.name,
        [target |-> em.target, propertyName |-> propertyName,
         mode |-> "virtual", primary |-> FALSE, nullable |-> nullable,
         default |-> default, name |-> propertyName])
     EXCEPT !.isVirtual = TRUE]

(* "check if tree is used then we need to add extra columns for specific   *)
(* tree types": the columns to add for the tree type the entity has by now *)
Step1TreeColumns(em, treeType) ==
    CASE treeType = "materialized-path" ->
             <<NewTreeColumn(em, "mpath", TRUE, "")>>
      [] treeType = "nested-set" ->
             <<NewTreeColumn(em, "nsleft", FALSE, "1"),
               NewTreeColumn(em, "nsright", FALSE, "2")>>
      [] OTHER -> <<>>

(* the parent's relation of the declaration at position k, 0 when missing *)
ParentRelation(em, k) ==
    FindRef(ems[em.parentEntityMetadata].ownRelations, rels,
            LAMBDA r : r.propertyName = storage.relations[k].propertyName)

(* ownRelations: a child reuses its parent's, every other entity creates   *)
(* its own; i is the position of the entity in entityMetadatas             *)
Step1OwnRelations(i, em) ==
    LET relationArgs == FilterByTargetAndWithoutDuplicateProperties(
                            storage.relations, em.inheritanceTree)
    IN  IF IsEntityChild(em)
        THEN [throws |-> \E p \in 1..Len(relationArgs) :
                             ParentRelation(em, relationArgs[p]) = 0,
              created |-> <<>>,
              own |-> [p \in 1..Len(relationArgs) |->
                          ParentRelation(em, relationArgs[p])]]
        ELSE [throws |-> FALSE,
              created |-> [p \in 1..Len(relationArgs) |->
                              NewRelationMetadata(
                                  em.name, i, storage.relations[relationArgs[p]])],
              own |-> [p \in 1..Len(relationArgs) |-> Len(rels) + p]]

Step1OwnIndices(em) ==
    LET indexArgs == FilterByTarget(storage.indices, em.inheritanceTree)
    IN  [created |->
             [p \in 1..Len(indexArgs) |->
                 NewIndexMetadata(em.name, storage.indices[indexArgs[p]].columns,
                                  <<>>, storage.indices[indexArgs[p]].unique, FALSE)],
         own |-> [p \in 1..Len(indexArgs) |-> Len(inds) + p]]

(* the outcome of computeEntityMetadataStep1 for the entity at position i: *)
(* whether it throws, and otherwise the heaps, the declarations and the    *)
(* entity after it                                                         *)
ComputeEntityMetadataStep1(i, em) ==
    IF IsEntityChild(em) /\ em.parentEntityMetadata = 0
    THEN [throws |-> TRUE]
    ELSE LET e == Step1Embeddeds(em)
             c == Step1OwnColumns(em, e.cols)
             d == Step1Discriminator(em, c)
             h == Step1Child(em, d)
             t == Step1TreeColumns(em, h.treeType)
             r == Step1OwnRelations(i, em)
             x == Step1OwnIndices(em)
         IN  IF d.throws \/ h.throws \/ r.throws
             THEN [throws |-> TRUE]
             ELSE [throws |-> FALSE,
                   columns |-> c.args,
                   cols |-> d.cols \o t,
                   rels |-> rels \o r.created,
                   inds |-> inds \o x.created,
                   em |-> [em EXCEPT !.embeddeds = e.embeddeds,
                                     !.ownColumns =
                                         h.own \o [p \in 1..Len(t) |->
                                                      Len(d.cols) + p],
                                     !.inheritancePattern = h.pattern,
                                     !.treeType = h.treeType,
                                     !.ownRelations = r.own,
                                     !.ownIndices = x.own]]

(* the state after computeEntityMetadataStep1 of the entity at position i *)
Step1Done(i, out) ==
    IF out.throws
    THEN /\ error' = TypeError(ems[i].name)
         /\ pc' = "thrown"
         /\ UNCHANGED <<storage, ems, cols, rels, inds, idx>>
    ELSE /\ storage' = [storage EXCEPT !.columns = out.columns]
         /\ cols' = out.cols
         /\ rels' = out.rels
         /\ inds' = out.inds
         /\ ems' = [ems EXCEPT ![i] = out.em]
         /\ error' = error
         /\ pc' = pc
         /\ idx' = idx + 1

Step1 ==
    /\ pc = "step1"
    /\ UNCHANGED notBuildVars
    /\ idx <= Len(Step1Order)
    /\ Step1Done(Step1Order[idx],
                 ComputeEntityMetadataStep1(Step1Order[idx], ems[Step1Order[idx]]))
    /\ UNCHANGED <<proto, snap, junctions, run, first, storage0>>

-----------------------------------------------------------------------------
(* computeEntityMetadataStep2.                                             *)

(* column.build() or relation.build() is called on an undefined element *)
Step2Throws(em) == Contains(em.ownColumns, 0) \/ Contains(em.ownRelations, 0)

RECURSIVE ColumnsFromTree(_)
(* embedded.columnsFromTree of each embedded in turn: its columns, then    *)
(* those of the embeddeds nested in it                                     *)
ColumnsFromTree(embeddeds) ==
    IF embeddeds = <<>> THEN <<>>
    ELSE Head(embeddeds).columns \o ColumnsFromTree(Head(embeddeds).embeddeds)
             \o ColumnsFromTree(Tail(embeddeds))

(* column.build(): the database name of every embedded and own column *)
Step2Columns(em, heap) ==
    [c \in 1..Len(heap) |->
        IF Contains(em.ownColumns, c) \/ Contains(ColumnsFromTree(em.embeddeds), c)
        THEN [heap[c] EXCEPT !.databaseName =
                 NamingColumnName(
                     (IF heap[c].embedded = "" THEN ""
                      ELSE heap[c].embedded \o "_") \o heap[c].propertyName,
                     heap[c].givenDatabaseName)]
        ELSE heap[c]]

RefsWhere(refs, heap, Test(_)) == Filter(refs, LAMBDA r : Test(heap[r]))

HasUUIDGeneratedColumns(columns, heap) ==
    Len(RefsWhere(columns, heap,
                  LAMBDA c : c.isGenerated \/ c.generationStrategy = "uuid")) > 0

(* checkMetadataForExtensions: the uuid check of one entity metadata *)
HasUuidColumns(em, heap) ==
    Len(RefsWhere(em.generatedColumns, heap,
                  LAMBDA c : c.generationStrategy = "uuid")) > 0

(* the computed properties of the entity metadata; `heap` holds the built  *)
(* columns                                                                 *)
Step2Entity(em, heap) ==
    LET columns == em.ownColumns \o ColumnsFromTree(em.embeddeds)
    IN  [em EXCEPT
            !.relations = em.ownRelations,
            !.columns = columns,
            !.indices = em.ownIndices,
            !.primaryColumns = RefsWhere(columns, heap, LAMBDA c : c.isPrimary),
            !.generatedColumns = RefsWhere(columns, heap, LAMBDA c : c.isGenerated),
            !.hasUUIDGeneratedColumns = HasUUIDGeneratedColumns(columns, heap),
            !.discriminatorColumn =
                FindRef(columns, heap, LAMBDA c : c.isDiscriminator)]

Step2 ==
    /\ pc = "step2"
    /\ UNCHANGED notBuildVars
    /\ idx <= snap
    /\ IF Step2Throws(ems[idx])
       THEN /\ error' = TypeError(ems[idx].name)
            /\ pc' = "thrown"
            /\ UNCHANGED <<ems, cols, idx>>
       ELSE /\ cols' = Step2Columns(ems[idx], cols)
            /\ ems' = [ems EXCEPT ![idx] = Step2Entity(ems[idx], cols')]
            /\ idx' = idx + 1
            /\ UNCHANGED <<pc, error>>
    /\ UNCHANGED <<proto, storage, snap, rels, inds, junctions, run, first,
                   storage0>>

-----------------------------------------------------------------------------
(* computeInverseProperties.                                               *)

(* m.target === relation.type, or for a string type the target name or the *)
(* given table name                                                        *)
(* a match that accepts any entity for a target given by name *)
IsInverseEntityMetadataByAnyName(m, type) ==
    \/ type.kind = "class" /\ m.target = type.ref
    \/ type.kind = "string"

IsInverseEntityMetadata(m, type) ==
    \/ type.kind = "class" /\ m.target = type.ref
    \/ type.kind = "string" /\ (m.targetName = type.ref \/ m.givenTableName = type.ref)

InverseEntityMetadataOf(all, relation) ==
    FindIndex(all, LAMBDA m : IsInverseEntityMetadata(m, relation.type))

(* position in em.relations of the first relation whose target is not an   *)
(* entity metadata of the set, 0 when every target is found                *)
FirstUnresolvedRelation(em, all, heap) ==
    FindIndex(em.relations, LAMBDA r : InverseEntityMetadataOf(all, heap[r]) = 0)

(* a resolution that links the inverse entity metadata but never the       *)
(* inverse relation                                                        *)
ResolveInversesWithoutInverseRelation(em, all, heap, last) ==
    [r \in 1..Len(heap) |->
        IF \E p \in 1..last : em.relations[p] = r
        THEN [heap[r] EXCEPT
                 !.inverseEntityMetadata = InverseEntityMetadataOf(all, heap[r]),
                 !.inverseSidePropertyPath = heap[r].givenInverseSide]
        ELSE heap[r]]

(* the relation heap after the relations of `em` up to position `last`     *)
(* were given their inverse entity metadata and inverse relation           *)
ResolveInverses(em, all, heap, last) ==
    [r \in 1..Len(heap) |->
        IF \E p \in 1..last : em.relations[p] = r
        THEN LET m == InverseEntityMetadataOf(all, heap[r])
                 path == heap[r].givenInverseSide
             IN  [heap[r] EXCEPT
                     !.inverseEntityMetadata = m,
                     !.inverseSidePropertyPath = path,
                     !.inverseRelation =
                         FindRef(all[m].relations, heap,
                                 LAMBDA x : x.propertyPath = path)]
        ELSE heap[r]]

ComputeInverseProperties ==
    /\ pc = "inverse"
    /\ UNCHANGED notBuildVars
    /\ idx <= snap
    /\ LET em == ems[idx]
           bad == FirstUnresolvedRelation(em, ems, rels)
       IN  IF bad # 0
           THEN /\ rels' = ResolveInverses(em, ems, rels, bad - 1)
                /\ error' = TypeORMError(em.name, rels[em.relations[bad]].propertyPath)
                /\ pc' = "thrown"
                /\ idx' = idx
           ELSE /\ rels' = ResolveInverses(em, ems, rels, Len(em.relations))
                /\ idx' = idx + 1
                /\ UNCHANGED <<pc, error>>
    /\ UNCHANGED <<proto, storage, snap, ems, cols, inds, junctions, run,
                   first, storage0>>

-----------------------------------------------------------------------------
(* The junction entity metadatas of the many-to-many relations.            *)

(* JunctionEntityMetadataBuilder.build refuses a relation whose inverse    *)
(* side declares a join table too (ambiguous owner).                       *)
JunctionBuildThrows(relation, heap) ==
    /\ relation.inverseRelation # 0
    /\ FindJoinTable(heap[relation.inverseRelation].target,
                     heap[relation.inverseRelation].propertyName) # 0

JunctionTableName(all, relation, joinTable) ==
    IF joinTable.name # "" THEN joinTable.name
    ELSE NamingJoinTableName(all[relation.em].tableName,
                             all[relation.inverseEntityMetadata].tableName,
                             relation.propertyPath)

(* the junction columns: one per primary column of the owner, then one per *)
(* primary column of the inverse entity                                    *)
JunctionColumns(all, relation, tableName, heap) ==
    LET side(m) ==
            [p \in 1..Len(all[m].primaryColumns) |->
                [NewColumnMetadata(tableName,
                    [target |-> "", propertyName |->
                        all[m].tableName \o "_" \o heap[all[m].primaryColumns[p]].databaseName,
                     mode |-> "virtual", primary |-> TRUE, nullable |-> FALSE,
                     default |-> "", name |-> ""])
                 EXCEPT !.isVirtual = FALSE]]
    IN  <<side(relation.em), side(relation.inverseEntityMetadata)>>

(* JunctionEntityMetadataBuilder.build: [entity, columns, indices] where   *)
(* the columns and indices are to be appended to the heaps                 *)
JunctionBuild(all, relation, joinTable, colHeap, indHeap, jid) ==
    LET tableName == JunctionTableName(all, relation, joinTable)
        sides == JunctionColumns(all, relation, tableName, colHeap)
        ownerRefs == [p \in 1..Len(sides[1]) |-> Len(colHeap) + p]
        inverseRefs == [p \in 1..Len(sides[2]) |-> Len(colHeap) + Len(sides[1]) + p]
        owner == all[relation.em]
        inverse == all[relation.inverseEntityMetadata]
        foreignKey(m, refs) ==
            [columns |-> refs,
             referencedEntityMetadata |-> m,
             referencedColumns |-> all[m].primaryColumns,
             declaration |-> 0,
             name |-> NamingForeignKeyName(tableName,
                         [p \in 1..Len(refs) |-> (sides[1] \o sides[2])[refs[p] - Len(colHeap)].propertyName],
                         all[m].tableName,
                         [p \in 1..Len(all[m].primaryColumns) |->
                             colHeap[all[m].primaryColumns[p]].databaseName])]
    IN  [entity |->
            [NewEntityMetadata([target |-> "", type |-> "junction",
                                name |-> tableName], <<>>, "", "")
             EXCEPT !.name = tableName,
                    !.tableName = tableName,
                    !.isJunction = TRUE,
                    !.jid = jid,
                    !.ownColumns = ownerRefs \o inverseRefs,
                    !.ownIndices = <<Len(indHeap) + 1, Len(indHeap) + 2>>,
                    !.foreignKeys = <<foreignKey(relation.em, ownerRefs),
                                      foreignKey(relation.inverseEntityMetadata,
                                                 inverseRefs)>>],
         columns |-> sides[1] \o sides[2],
         indices |-> <<NewIndexMetadata(tableName, <<>>, ownerRefs, FALSE, TRUE),
                       NewIndexMetadata(tableName, <<>>, inverseRefs, FALSE, TRUE)>>]

(* a check that never finds a user-defined table *)
HasUserDefinedTableNever(all, junction) == FALSE

(* "check if there's already a user-defined entity with the same table     *)
(* name"                                                                   *)
HasUserDefinedTable(all, junction) ==
    \E k \in 1..Len(all) :
        all[k].tableName = junction.tableName /\ ~all[k].isJunction

(* The state the junction loop works on. *)
JunctionState(e, c, r, n, j, err) ==
    [ems |-> e, cols |-> c, rels |-> r, inds |-> n, junctions |-> j, error |-> err]

RECURSIVE CreateJunctions(_, _, _)
(* the forEach over the many-to-many relations `refs` (from position p) of *)
(* one entity metadata                                                     *)
CreateJunctions(refs, p, st) ==
    IF p > Len(refs) \/ st.error # NoError THEN st
    ELSE
        LET r == refs[p]
            relation == st.rels[r]
            jt == FindJoinTable(relation.target, relation.propertyName)
        IN  IF jt = 0 THEN CreateJunctions(refs, p + 1, st)
            ELSE IF JunctionBuildThrows(relation, st.rels)
            THEN [st EXCEPT !.error =
                     TypeORMError(relation.entity, relation.propertyPath)]
            ELSE
                LET jid == Len(st.junctions) + 1
                    built == JunctionBuild(st.ems, relation, storage.joinTables[jt],
                                           st.cols, st.inds, jid)
                    cols1 == Step2Columns(built.entity, st.cols \o built.columns)
                    junction == Step2Entity(built.entity, cols1)
                IN  CreateJunctions(refs, p + 1,
                        JunctionState(
                            IF HasUserDefinedTable(st.ems, junction)
                            THEN st.ems ELSE Append(st.ems, junction),
                            cols1,
                            [st.rels EXCEPT ![r].junctionEntityMetadata = jid,
                                            ![r].registered = @ + 1],
                            st.inds \o built.indices,
                            Append(st.junctions, junction),
                            st.error))

(* the entities the join-column / junction loop visits: the non-children   *)
(* of the array as it was when the loop started                            *)
JunctionOrder == NonChildren(SubSeq(ems, 1, snap))

CreateJunctionEntityMetadatas ==
    /\ pc = "junction"
    /\ UNCHANGED notBuildVars
    /\ idx <= Len(JunctionOrder)
    /\ LET em == ems[JunctionOrder[idx]]
           manyToMany == RefsWhere(em.relations, rels,
                                   LAMBDA r : r.relationType = "many-to-many")
           st == CreateJunctions(manyToMany, 1,
                                 JunctionState(ems, cols, rels, inds, junctions, NoError))
       IN  /\ ems' = st.ems
           /\ cols' = st.cols
           /\ rels' = st.rels
           /\ inds' = st.inds
           /\ junctions' = st.junctions
           /\ error' = st.error
           /\ IF st.error # NoError
              THEN pc' = "thrown" /\ idx' = idx
              ELSE pc' = pc /\ idx' = idx + 1
    /\ UNCHANGED <<proto, storage, snap, run, first, storage0>>

-----------------------------------------------------------------------------
(* The closure junction tables of the closure-table trees.                 *)

NamingClosureJunctionTableName(originalClosureTableName) ==
    originalClosureTableName \o "_closure"

(* one column of a closure junction for a primary column of the tree *)
ClosureColumn(tableName, side, primaryColumn) ==
    [NewColumnMetadata(tableName,
        [target |-> "", propertyName |-> side \o "_" \o primaryColumn.propertyName,
         mode |-> "virtual", primary |-> TRUE, nullable |-> FALSE,
         default |-> "", name |-> ""])
     EXCEPT !.isVirtual = TRUE]

(* ClosureJunctionEntityMetadataBuilder.build(parent): [entity, columns]    *)
(* where the columns are to be appended to the heap; `i` is the position   *)
(* of the tree entity and `jid` the identity of the junction, a number no  *)
(* other junction has                                                      *)
ClosureJunctionBuild(all, i, colHeap, jid) ==
    LET parent == all[i]
        tableName == NamingClosureJunctionTableName(parent.tableName)
        n == Len(parent.primaryColumns)
        ancestors == [p \in 1..n |->
                         ClosureColumn(tableName, "ancestor",
                                       colHeap[parent.primaryColumns[p]])]
        descendants == [p \in 1..n |->
                           ClosureColumn(tableName, "descendant",
                                         colHeap[parent.primaryColumns[p]])]
        ancestorRefs == [p \in 1..n |-> Len(colHeap) + p]
        descendantRefs == [p \in 1..n |-> Len(colHeap) + n + p]
        foreignKey(refs, created) ==
            [columns |-> refs,
             referencedEntityMetadata |-> i,
             referencedColumns |-> parent.primaryColumns,
             declaration |-> 0,
             name |-> NamingForeignKeyName(tableName,
                         [p \in 1..n |-> created[p].propertyName],
                         parent.tableName,
                         [p \in 1..n |->
                             colHeap[parent.primaryColumns[p]].databaseName])]
    IN  [entity |->
            [NewEntityMetadata([target |-> "", type |-> "closure-junction",
                                name |-> tableName], <<>>, "", "")
             EXCEPT !.name = tableName,
                    !.tableName = tableName,
                    !.isJunction = TRUE,
                    !.jid = jid,
                    !.parentClosureEntityMetadata = i,
                    !.ownColumns = ancestorRefs \o descendantRefs,
                    !.foreignKeys = <<foreignKey(ancestorRefs, ancestors),
                                      foreignKey(descendantRefs, descendants)>>],
         columns |-> ancestors \o descendants]

(* the entities the closure loop visits: those with a closure-table tree   *)
(* in the array as it was when the loop started                            *)
ClosureOrder ==
    Filter([i \in 1..snap |-> i], LAMBDA i : ems[i].treeType = "closure-table")

CreateClosureJunctions ==
    /\ pc = "closure"
    /\ UNCHANGED notBuildVars
    /\ idx <= Len(ClosureOrder)
    /\ LET i == ClosureOrder[idx]
           jid == Len(junctions) + Len(ems) + 1
           built == ClosureJunctionBuild(ems, i, cols, jid)
           cols1 == Step2Columns(built.entity, cols \o built.columns)
           junction == Step2Entity(built.entity, cols1)
       IN  /\ cols' = cols1
           /\ ems' = Append([ems EXCEPT ![i].closureJunctionTable = jid],
                            junction)
    /\ idx' = idx + 1
    /\ UNCHANGED <<proto, storage, pc, snap, rels, inds, junctions, error, run,
                   first, storage0>>

-----------------------------------------------------------------------------
(* createKeysForTableInheritance.                                          *)

(* the entities with single-table inheritance and a discriminator column *)
KeysOrder ==
    Filter([i \in 1..snap |-> i],
           LAMBDA i : ems[i].inheritancePattern = "STI"
                      /\ ems[i].discriminatorColumn # 0)

IsDiscriminatorColumnAlreadyIndexed(em, indHeap, colHeap) ==
    \E p \in 1..Len(em.indices) :
        LET given == indHeap[em.indices[p]].givenColumnNames
        IN  Len(given) = 1
            /\ given[1] = colHeap[em.discriminatorColumn].databaseName

(* `embeddeds.reduce((indices, embedded) => indices.concat(...), ownIndices)` *)
(* of step 2 returns the array ownIndices itself when there is no embedded *)
(* and a new array otherwise                                               *)
IndicesIsOwnIndices(em) == em.embeddeds = <<>>

(* entityMetadata.indices.push(index) *)
PushIndex(em, index) ==
    IF IndicesIsOwnIndices(em)
    THEN [em EXCEPT !.indices = Append(@, index),
                    !.ownIndices = Append(@, index)]
    ELSE [em EXCEPT !.indices = Append(@, index)]

CreateKeysForTableInheritance ==
    /\ pc = "keys"
    /\ UNCHANGED notBuildVars
    /\ idx <= Len(KeysOrder)
    /\ LET i == KeysOrder[idx]
           em == ems[i]
       IN  IF IsDiscriminatorColumnAlreadyIndexed(em, inds, cols)
           THEN UNCHANGED <<ems, inds>>
           ELSE /\ inds' = Append(inds,
                       NewIndexMetadata(em.name, <<>>, <<em.discriminatorColumn>>,
                                        FALSE, TRUE))
                /\ ems' = [ems EXCEPT ![i] = PushIndex(em, Len(inds) + 1)]
    /\ idx' = idx + 1
    /\ UNCHANGED <<proto, storage, pc, snap, cols, rels, junctions, error,
                   run, first, storage0>>

-----------------------------------------------------------------------------
(* index.build(namingStrategy) for every index of every entity.            *)

ColumnByPropertyPath(em, colHeap, propertyPath) ==
    FindRef(em.columns, colHeap, LAMBDA c : c.propertyName = propertyPath)

(* an index names a property that is no column of its entity *)
IndexBuildThrows(index, em, colHeap) ==
    \E p \in 1..Len(index.givenColumnNames) :
        ColumnByPropertyPath(em, colHeap, index.givenColumnNames[p]) = 0

IndexBuild(index, em, colHeap) ==
    LET columns ==
            IF index.givenColumnNames # <<>>
            THEN [p \in 1..Len(index.givenColumnNames) |->
                     ColumnByPropertyPath(em, colHeap, index.givenColumnNames[p])]
            ELSE index.columns
    IN  [index EXCEPT
            !.columns = columns,
            !.name = NamingIndexName(em.tableName,
                        [p \in 1..Len(columns) |-> colHeap[columns[p]].databaseName])]

(* [entity, position] of the first index that cannot be built, <<>> if none *)
UnbuildableIndices ==
    {<<i, p>> \in (1..Len(ems)) \X (1..Len(inds)) :
        /\ p <= Len(ems[i].indices)
        /\ IndexBuildThrows(inds[ems[i].indices[p]], ems[i], cols)}

OwnerOfIndex(x) ==
    CHOOSE i \in 1..Len(ems) : Contains(ems[i].indices, x)

BuildIndices ==
    /\ pc = "names"
    /\ UNCHANGED notBuildVars
    /\ IF UnbuildableIndices # {}
       THEN /\ LET bad == CHOOSE b \in UnbuildableIndices :
                              \A o \in UnbuildableIndices :
                                  b[1] < o[1] \/ (b[1] = o[1] /\ b[2] <= o[2])
               IN  error' = TypeORMError(ems[bad[1]].targetName,
                                inds[ems[bad[1]].indices[bad[2]]].givenColumnNames[1])
            /\ pc' = "thrown"
            /\ UNCHANGED <<inds, idx, snap>>
       ELSE /\ inds' = [x \in 1..Len(inds) |->
                           IF \E i \in 1..Len(ems) : Contains(ems[i].indices, x)
                           THEN IndexBuild(inds[x], ems[OwnerOfIndex(x)], cols)
                           ELSE inds[x]]
            /\ pc' = "foreignKeys"
            /\ idx' = 1
            /\ snap' = Len(ems)
            /\ error' = error
    /\ UNCHANGED <<proto, storage, ems, cols, rels, junctions, run, first,
                   storage0>>

-----------------------------------------------------------------------------
(* createForeignKeys.                                                      *)

ReferencedEntityMetadataOf(all, type) ==
    FindIndex(all, LAMBDA m :
        IF type.kind = "string"
        THEN m.targetName = type.ref \/ m.givenTableName = type.ref
        ELSE m.target = type.ref)

(* columnNames after `columnNames.push(foreignKeyArgs.propertyName)` *)
ForeignKeyColumnNames(args) ==
    OrEmpty(args.columnNames)
        \o (IF args.propertyName # "" THEN <<args.propertyName>> ELSE <<>>)

(* referencedColumnNames after `referencedColumnNames.push(inverseSide)` *)
ForeignKeyReferencedColumnNames(args) ==
    OrEmpty(args.referencedColumnNames)
        \o (IF args.propertyName # "" /\ args.inverseSide # ""
            THEN <<args.inverseSide>> ELSE <<>>)

(* The args record after the pushes: a list that came from the record is   *)
(* the record's own array, a list made by `?? []` is a fresh one.          *)
ForeignKeyArgsAfterPush(args) ==
    [args EXCEPT
        !.columnNames =
            IF args.columnNames.def THEN List(ForeignKeyColumnNames(args)) ELSE @,
        !.referencedColumnNames =
            IF args.referencedColumnNames.def
            THEN List(ForeignKeyReferencedColumnNames(args)) ELSE @]

ColumnNameToColumn(columnName, em, colHeap) ==
    FindRef(em.columns, colHeap,
            LAMBDA c : c.propertyName = columnName \/ c.databaseName = columnName)

ReferencedColumns(args, referenced, colHeap) ==
    LET names == ForeignKeyReferencedColumnNames(args)
    IN  (IF Len(names) = 0 THEN referenced.primaryColumns ELSE <<>>)
        \o [p \in 1..Len(names) |-> ColumnNameToColumn(names[p], referenced, colHeap)]

DatabaseNames(refs, colHeap) == [p \in 1..Len(refs) |-> colHeap[refs[p]].databaseName]

NewForeignKeyMetadata(em, k, args, columns, m, referenced, referencedColumns, colHeap) ==
    [columns |-> columns,
     referencedEntityMetadata |-> m,
     referencedColumns |-> referencedColumns,
     declaration |-> k,
     name |-> IF args.name # "" THEN args.name
              ELSE NamingForeignKeyName(em.tableName, DatabaseNames(columns, colHeap),
                                        referenced.tableName,
                                        DatabaseNames(referencedColumns, colHeap))]

RECURSIVE CreateForeignKeysFrom(_, _, _, _)
(* the forEach over the foreign-key args `decls` (indices into             *)
(* storage.foreignKeys) of entity metadata i; st = [ems, storage, error]   *)
CreateForeignKeysFrom(decls, p, i, st) ==
    IF p > Len(decls) \/ st.error # NoError THEN st
    ELSE
        LET k == decls[p]
            em == st.ems[i]
            args == st.storage.foreignKeys[k]
            m == ReferencedEntityMetadataOf(st.ems, args.type)
            columnNames == ForeignKeyColumnNames(args)
            referencedColumnNames == ForeignKeyReferencedColumnNames(args)
            columns == [q \in 1..Len(columnNames) |->
                           ColumnNameToColumn(columnNames[q], em, cols)]
            referencedColumns == ReferencedColumns(args, st.ems[m], cols)
            pushed == [st.storage EXCEPT !.foreignKeys[k] = ForeignKeyArgsAfterPush(args)]
        IN  IF m = 0
            THEN [st EXCEPT !.error = TypeORMError(em.name, args.propertyName)]
            ELSE IF Contains(columns, 0)
            THEN [st EXCEPT !.storage = pushed,
                            !.error = TypeORMError(em.targetName,
                                columnNames[FindIndex(columns, LAMBDA c : c = 0)])]
            ELSE IF Contains(referencedColumns, 0)
            THEN [st EXCEPT !.storage = pushed,
                            !.error = TypeORMError(st.ems[m].targetName,
                                referencedColumnNames[
                                    FindIndex(referencedColumns, LAMBDA c : c = 0)])]
            ELSE CreateForeignKeysFrom(decls, p + 1, i,
                    [st EXCEPT
                        !.storage = pushed,
                        !.ems[i].foreignKeys =
                            Append(@, NewForeignKeyMetadata(em, k, args, columns, m,
                                          st.ems[m], referencedColumns, cols))])

CreateForeignKeys ==
    /\ pc = "foreignKeys"
    /\ UNCHANGED notBuildVars
    /\ idx <= snap
    /\ LET decls == FilterByTarget(storage.foreignKeys, ems[idx].inheritanceTree)
           st == CreateForeignKeysFrom(decls, 1, idx,
                     [ems |-> ems, storage |-> storage, error |-> NoError])
       IN  /\ ems' = st.ems
           /\ storage' = st.storage
           /\ error' = st.error
           /\ IF st.error # NoError
              THEN pc' = "thrown" /\ idx' = idx
              ELSE pc' = pc /\ idx' = idx + 1
    /\ UNCHANGED <<proto, snap, cols, rels, inds, junctions, run, first,
                   storage0>>

-----------------------------------------------------------------------------
(* The generated columns (the last loop of build()).                       *)

GeneratedColumnType(strategy, type) ==
    IF strategy = "uuid" THEN "uuid"
    ELSE IF strategy = "rowid" THEN "int"
    ELSE IF type # "" THEN type ELSE "Number"

(* the column heap after the loop over the columns of `em` *)
ApplyGenerated(em, colHeap) ==
    [c \in 1..Len(colHeap) |->
        LET g == FindGenerated(colHeap[c].target, colHeap[c].propertyName)
        IN  IF Contains(em.columns, c) /\ g # 0
            THEN [colHeap[c] EXCEPT
                     !.isGenerated = TRUE,
                     !.generationStrategy = storage.generations[g].strategy,
                     !.type = GeneratedColumnType(storage.generations[g].strategy, @)]
            ELSE colHeap[c]]

HasGeneratedDeclaration(em, colHeap) ==
    \E p \in 1..Len(em.columns) :
        FindGenerated(colHeap[em.columns[p]].target,
                      colHeap[em.columns[p]].propertyName) # 0

(* the entity after the loop: step 2 is computed again after every column  *)
(* that has a generation declaration                                       *)
EntityAfterGenerated(em, colHeap) ==
    IF HasGeneratedDeclaration(em, colHeap)
    THEN Step2Entity(em, ApplyGenerated(em, colHeap))
    ELSE em

SetGeneratedColumns ==
    /\ pc = "generated"
    /\ UNCHANGED notBuildVars
    /\ idx <= snap
    /\ cols' = ApplyGenerated(ems[idx], cols)
    /\ ems' = [ems EXCEPT ![idx] = EntityAfterGenerated(ems[idx], cols)]
    /\ idx' = idx + 1
    /\ UNCHANGED <<proto, storage, pc, snap, rels, inds, junctions, error,
                   run, first, storage0>>

-----------------------------------------------------------------------------
(* The sequencing of the passes, the return and a second build().          *)

(* how many elements the forEach of the per-entity pass `p` visits *)
PassLength(p) ==
    CASE p = "step1" -> Len(Step1Order)
      [] p = "junction" -> Len(JunctionOrder)
      [] p = "closure" -> Len(ClosureOrder)
      [] p = "keys" -> Len(KeysOrder)
      [] OTHER -> snap

NextPassOf(p) ==
    CASE p = "step1" -> "step2"
      [] p = "step2" -> "inverse"
      [] p = "inverse" -> "junction"
      [] p = "junction" -> "closure"
      [] p = "closure" -> "keys"
      [] p = "keys" -> "names"
      [] p = "foreignKeys" -> "generated"
      [] p = "generated" -> "done"

(* a forEach has visited its last element: the next statement of build() *)
NextPass ==
    /\ pc \in {"step1", "step2", "inverse", "junction", "closure", "keys",
               "foreignKeys", "generated"}
    /\ UNCHANGED notBuildVars
    /\ idx > PassLength(pc)
    /\ pc' = NextPassOf(pc)
    /\ idx' = 1
    /\ snap' = Len(ems)
    /\ UNCHANGED <<proto, storage, ems, cols, rels, inds, junctions, error,
                   run, first, storage0>>

(* what a caller can see of a returned set: the entities in order, their   *)
(* columns in order and the physical names                                 *)
ResultOf(all, colHeap, indHeap) ==
    [i \in 1..Len(all) |->
        [target |-> all[i].target,
         tableName |-> all[i].tableName,
         columns |-> DatabaseNames(all[i].columns, colHeap),
         indices |-> [p \in 1..Len(all[i].indices) |-> indHeap[all[i].indices[p]].name],
         foreignKeys |-> [p \in 1..Len(all[i].foreignKeys) |->
                             all[i].foreignKeys[p].name]]]

NoResult == <<>>

(* build() is called a second time over the same storage *)
Rebuild ==
    /\ pc = "done"
    /\ UNCHANGED notBuildVars
    /\ run = 1
    /\ first' = ResultOf(ems, cols, inds)
    /\ run' = 2
    /\ pc' = "create"
    /\ idx' = 1
    /\ snap' = 0
    /\ ems' = <<>>
    /\ cols' = <<>>
    /\ rels' = <<>>
    /\ inds' = <<>>
    /\ junctions' = <<>>
    /\ UNCHANGED <<proto, storage, error, storage0>>

-----------------------------------------------------------------------------
(* JavaScript values of the value codec.  A string is the sequence of its  *)
(* characters; `boxed` counts the wrappers the column's transformer has    *)
(* put around a database value.                                            *)

JsValue(t, s, n, entries, items) ==
    [t |-> t, s |-> s, n |-> n, entries |-> entries, items |-> items,
     boxed |-> 0]

Undefined == JsValue("undefined", <<>>, 0, <<>>, <<>>)
Null == JsValue("null", <<>>, 0, <<>>, <<>>)
NaN == JsValue("NaN", <<>>, 0, <<>>, <<>>)
Str(s) == JsValue("string", s, 0, <<>>, <<>>)
Num(n) == JsValue("number", <<>>, n, <<>>, <<>>)
(* the number with integer part n and the fraction digits `frac` (no       *)
(* trailing zero): Dec(0 - 1, <<"5">>) is -1.5                             *)
Dec(n, frac) == JsValue("number", frac, n, <<>>, <<>>)
(* an exception thrown instead of a value *)
Thrown == JsValue("TypeError", <<>>, 0, <<>>, <<>>)
Bool(b) == JsValue("boolean", <<>>, IF b THEN 1 ELSE 0, <<>>, <<>>)
Obj(entries) == JsValue("object", <<>>, 0, entries, <<>>)
Arr(items) == JsValue("array", <<>>, 0, <<>>, items)

(* no value: the operation that yields it has not run *)
Absent == JsValue("absent", <<>>, 0, <<>>, <<>>)

(* `typeof value`, with null, NaN and arrays told apart *)
TypeOf(v) == IF v.boxed > 0 THEN "object" ELSE v.t

(* `value === null || value === undefined` *)
IsNullish(v) == TypeOf(v) \in {"null", "undefined"}

(* only the native true and the integer 1 taken for true *)
TruthyOnlyOne(v) == TypeOf(v) \in {"boolean", "number"} /\ v.n = 1

(* `value ? true : false` *)
Truthy(v) ==
    CASE TypeOf(v) \in {"null", "undefined", "NaN"} -> FALSE
      [] TypeOf(v) = "boolean" -> v.n = 1
      [] TypeOf(v) = "number" -> v.n # 0
      [] TypeOf(v) = "string" -> v.s # <<>>
      [] OTHER -> TRUE

Digits == <<"0", "1", "2", "3", "4", "5", "6", "7", "8", "9">>

IsDigit(c) == \E d \in 1..Len(Digits) : Digits[d] = c

DigitValue(c) == (CHOOSE d \in 1..Len(Digits) : Digits[d] = c) - 1

RECURSIVE IntToText(_)
(* the decimal text of an integer *)
IntToText(n) ==
    IF n < 0 THEN <<"-">> \o IntToText(0 - n)
    ELSE IF n < 10 THEN <<Digits[n + 1]>>
    ELSE IntToText(n \div 10) \o <<Digits[(n % 10) + 1]>>

RECURSIVE Join(_, _)
(* Array.prototype.join *)
Join(parts, sep) ==
    IF parts = <<>> THEN <<>>
    ELSE IF Len(parts) = 1 THEN parts[1]
    ELSE parts[1] \o sep \o Join(Tail(parts), sep)

RECURSIVE ToText(_)
(* `${value}` and `"" + value` *)
ToText(v) ==
    CASE TypeOf(v) = "string" -> v.s
      [] TypeOf(v) = "number" ->
            IntToText(v.n) \o (IF v.s = <<>> THEN <<>> ELSE <<".">> \o v.s)
      [] TypeOf(v) = "boolean" ->
            IF v.n = 1 THEN <<"t", "r", "u", "e">> ELSE <<"f", "a", "l", "s", "e">>
      [] TypeOf(v) = "null" -> <<"n", "u", "l", "l">>
      [] TypeOf(v) = "undefined" ->
            <<"u", "n", "d", "e", "f", "i", "n", "e", "d">>
      [] TypeOf(v) = "NaN" -> <<"N", "a", "N">>
      [] TypeOf(v) = "array" ->
            Join([k \in 1..Len(v.items) |->
                     IF IsNullish(v.items[k]) THEN <<>>
                     ELSE ToText(v.items[k])],
                 <<",">>)
      [] OTHER -> <<"[", "o", "b", "j", "e", "c", "t", " ",
                    "O", "b", "j", "e", "c", "t", "]">>

RECURSIVE SplitFrom(_, _, _)
(* the pieces of `text` between the occurrences of the character `sep`,    *)
(* `piece` being the piece under way                                       *)
SplitFrom(text, sep, piece) ==
    IF text = <<>> THEN <<piece>>
    ELSE IF Head(text) = sep THEN <<piece>> \o SplitFrom(Tail(text), sep, <<>>)
    ELSE SplitFrom(Tail(text), sep, Append(piece, Head(text)))

(* String.prototype.split with a one-character separator *)
Split(text, sep) == SplitFrom(text, sep, <<>>)

(* String.prototype.slice(1, -1) *)
SliceInner(text) == SubSeq(text, 2, Len(text) - 1)

(* `!isNaN(+value)` for a number, or a string of letters, digits and       *)
(* punctuation without sign, point, exponent or white space: such a string *)
(* converts to a number iff it is empty (0) or all digits                  *)
IsNumeric(v) ==
    CASE TypeOf(v) = "number" -> TRUE
      [] TypeOf(v) = "string" -> \A k \in 1..Len(v.s) : IsDigit(v.s[k])
      [] OTHER -> FALSE

RECURSIVE DigitsValue(_, _)
DigitsValue(text, acc) ==
    IF text = <<>> \/ ~IsDigit(Head(text)) THEN acc
    ELSE DigitsValue(Tail(text), acc * 10 + DigitValue(Head(text)))

(* parseInt: the value of the leading digits, NaN when there are none *)
ParseInt(v) ==
    LET text == ToText(v)
    IN  IF TypeOf(v) = "number" THEN v
        ELSE IF text = <<>> \/ ~IsDigit(Head(text)) THEN NaN
        ELSE Num(DigitsValue(text, 0))

(* `columnMetadata.enum!.indexOf(x) >= 0`: strict equality, NaN equals     *)
(* nothing                                                                 *)
EnumIndexOf(enum, x) ==
    TypeOf(x) # "NaN" /\ \E k \in 1..Len(enum) : enum[k] = x

(* ApplyValueTransformers with the transformer of the model's columns: an  *)
(* entity value is a box around the database value; `to` opens the box and *)
(* `from` puts any value it is given, null included, into a new box        *)
transformTo(v) == IF v.boxed > 0 THEN [v EXCEPT !.boxed = @ - 1] ELSE v

transformFrom(v) == [v EXCEPT !.boxed = @ + 1]

ColumnMetadataOf(type, isArray, hstoreType, enum, transformer) ==
    [type |-> type, isArray |-> isArray, hstoreType |-> hstoreType,
     enum |-> enum, transformer |-> transformer]

NoColumn == ColumnMetadataOf("", FALSE, "", <<>>, FALSE)

-----------------------------------------------------------------------------
(* PostgresDriver.preparePersistentValue.                                  *)

RECURSIVE EscapeQuotes(_)
(* `.replace(/(?=["\\])/g, "\\")`: a backslash before every double quote   *)
(* and every backslash                                                     *)
EscapeQuotes(text) ==
    IF text = <<>> THEN <<>>
    ELSE (IF Head(text) \in {"\"", "\\"} THEN <<"\\", Head(text)>>
          ELSE <<Head(text)>>) \o EscapeQuotes(Tail(text))

NullToken == <<"N", "U", "L", "L">>

quoteString(v) ==
    IF IsNullish(v) THEN NullToken
    ELSE <<"\"">> \o EscapeQuotes(ToText(v)) \o <<"\"">>

(* Object.keys(value).map(...).join(","); the keys of the model's objects  *)
(* are never integer-like, so they come in insertion order                 *)
HstoreText(v) ==
    Join([k \in 1..Len(v.entries) |->
             quoteString(Str(v.entries[k].key)) \o <<"=", ">">>
                 \o quoteString(v.entries[k].val)],
         <<",">>)

EnumTypes == {"enum", "simple-enum"}

(* `(${cube.join(",")})` *)
CubeText(cube) == <<"(">> \o ToText(cube) \o <<")">>

(* the array branch of the cube type: `cube.join` of an entry that is null *)
(* or undefined throws a TypeError                                         *)
CubeArrayText(v) ==
    IF \E k \in 1..Len(v.items) : IsNullish(v.items[k]) THEN Thrown
    ELSE Str(<<"{">>
             \o Join([k \in 1..Len(v.items) |->
                         <<"\"">> \o CubeText(v.items[k]) \o <<"\"">>],
                     <<",">>)
             \o <<"}">>)

(* the characters the class \s of a regular expression accepts *)
WhiteSpace == {" ", "\t"}

RECURSIVE ReplaceWhiteSpace(_)
(* `.replace(/[\s]+/g, "_")`: one underscore for each run of white space *)
ReplaceWhiteSpace(text) ==
    IF text = <<>> THEN <<>>
    ELSE IF Head(text) \in WhiteSpace
    THEN IF Len(text) >= 2 /\ text[2] \in WhiteSpace
         THEN ReplaceWhiteSpace(Tail(text))
         ELSE <<"_">> \o ReplaceWhiteSpace(Tail(text))
    ELSE <<Head(text)>> \o ReplaceWhiteSpace(Tail(text))

(* the segments without `.filter(Boolean)` *)
LtreeSegmentsKeepingEmpty(text) == Split(text, ".")

(* `.split(".").filter(Boolean)`: the segments that are not empty *)
LtreeSegments(text) == Filter(Split(text, "."), LAMBDA segment : segment # <<>>)

LtreeText(text) == ReplaceWhiteSpace(Join(LtreeSegments(text), <<".">>))

(* the type branches entered without the guard on null and undefined *)
PersistentEncodingWithoutNullGuard(v, columnMetadata) ==
    IF columnMetadata.type = "Boolean"
    THEN Num(IF v = Bool(TRUE) THEN 1 ELSE 0)
    ELSE IF columnMetadata.type \in EnumTypes /\ ~columnMetadata.isArray
    THEN Str(ToText(v))
    ELSE v

(* the type branches of preparePersistentValue, after the transformer *)
PersistentEncoding(v, columnMetadata) ==
    IF IsNullish(v) THEN v
    ELSE IF columnMetadata.type = "Boolean"
    THEN Num(IF v = Bool(TRUE) THEN 1 ELSE 0)
    ELSE IF columnMetadata.type = "hstore"
    THEN IF TypeOf(v) = "string" THEN v ELSE Str(HstoreText(v))
    ELSE IF columnMetadata.type = "cube"
    THEN IF columnMetadata.isArray THEN CubeArrayText(v) ELSE Str(CubeText(v))
    ELSE IF columnMetadata.type = "ltree"
    THEN Str(LtreeText(v.s))
    ELSE IF columnMetadata.type \in EnumTypes /\ ~columnMetadata.isArray
    THEN Str(ToText(v))
    ELSE v

preparePersistentValue(v, columnMetadata) ==
    PersistentEncoding(IF columnMetadata.transformer THEN transformTo(v) ELSE v,
                       columnMetadata)

-----------------------------------------------------------------------------
(* PostgresDriver.prepareHydratedValue.                                    *)

RECURSIVE unescapeString(_)
(* `str.replace(/\\./g, (m) => m[1])` *)
unescapeString(str) ==
    IF str = <<>> THEN <<>>
    ELSE IF Head(str) = "\\" /\ Len(str) >= 2
    THEN <<str[2]>> \o unescapeString(SubSeq(str, 3, Len(str)))
    ELSE <<Head(str)>> \o unescapeString(Tail(str))

RECURSIVE QuotedEnd(_, _)
(* The quoted body of the pair pattern (plain characters and escapes, up   *)
(* to a double quote) read from position p: the position of the closing    *)
(* quote, 0 when there is no match.  Every way of backtracking             *)
(* ends at the same quote: a quote is consumed only as the second          *)
(* character of an escape.  (No character of the model is a line           *)
(* terminator, so `.` accepts them all.)                                   *)
QuotedEnd(text, p) ==
    IF p > Len(text) THEN 0
    ELSE IF text[p] = "\"" THEN p
    ELSE IF text[p] = "\\"
    THEN IF p + 1 > Len(text) THEN 0 ELSE QuotedEnd(text, p + 2)
    ELSE QuotedEnd(text, p + 1)

NoMatch == [ok |-> FALSE, key |-> <<>>, nullValue |-> FALSE,
            stringValue |-> <<>>, next |-> 0]

(* one match of the pair pattern that starts at position p: its groups and *)
(* the position after it                                                   *)
HstoreMatchAt(text, p) ==
    LET q == IF p <= Len(text) /\ text[p] = "\""
             THEN QuotedEnd(text, p + 1) ELSE 0
        arrow == q # 0 /\ q + 2 <= Len(text)
                 /\ text[q + 1] = "=" /\ text[q + 2] = ">"
        v == q + 3
        AtEnd(e) == e > Len(text) \/ text[e] = ","
        After(e) == IF e > Len(text) THEN e ELSE e + 1
        nullValue == arrow /\ v + 3 <= Len(text)
                     /\ SubSeq(text, v, v + 3) = NullToken /\ AtEnd(v + 4)
        r == IF arrow /\ v <= Len(text) /\ text[v] = "\""
             THEN QuotedEnd(text, v + 1) ELSE 0
    IN  IF nullValue
        THEN [ok |-> TRUE, key |-> SubSeq(text, p + 1, q - 1),
              nullValue |-> TRUE, stringValue |-> <<>>, next |-> After(v + 4)]
        ELSE IF r # 0 /\ AtEnd(r + 1)
        THEN [ok |-> TRUE, key |-> SubSeq(text, p + 1, q - 1),
              nullValue |-> FALSE, stringValue |-> SubSeq(text, v + 1, r - 1),
              next |-> After(r + 1)]
        ELSE NoMatch

(* a property name that is an accessor of Object.prototype *)
ProtoKey == <<"_", "_", "p", "r", "o", "t", "o", "_", "_">>

(* `object[key] = v` on an object literal: an assignment to __proto__      *)
(* reaches the accessor inherited from Object.prototype, which makes no    *)
(* own property (null clears the prototype, a string is ignored); any      *)
(* other key, and __proto__ once the prototype is cleared, is an own       *)
(* property, a new one going last                                          *)
SetProperty(object, key, v) ==
    IF key = ProtoKey /\ ~object.nullPrototype
    THEN [object EXCEPT !.nullPrototype = IsNullish(v)]
    ELSE LET at == FindIndex(object.entries, LAMBDA e : e.key = key)
         IN  IF at = 0
             THEN [object EXCEPT
                      !.entries = Append(@, [key |-> key, val |-> v])]
             ELSE [object EXCEPT !.entries[at].val = v]

RECURSIVE HstoreReplace(_, _, _)
(* `${value}`.replace(regexp, callback) with the global pair pattern: the  *)
(* matches from left to right, each searched from the end of the one       *)
(* before, the callback run on each                                        *)
HstoreReplace(text, p, object) ==
    IF p > Len(text) THEN object
    ELSE LET m == HstoreMatchAt(text, p)
         IN  IF m.ok
             THEN HstoreReplace(text, m.next,
                      SetProperty(object, unescapeString(m.key),
                                  IF m.nullValue THEN Null
                                  ELSE Str(unescapeString(m.stringValue))))
             ELSE HstoreReplace(text, p + 1, object)

HstoreObject(v) ==
    Obj(HstoreReplace(ToText(v), 1,
                      [entries |-> <<>>, nullPrototype |-> FALSE]).entries)

RECURSIVE UnescapeEnumElement(_)
(* `val.replace(/\\(\\|")/g, "$1")` *)
UnescapeEnumElement(val) ==
    IF val = <<>> THEN <<>>
    ELSE IF Head(val) = "\\" /\ Len(val) >= 2 /\ val[2] \in {"\\", "\""}
    THEN <<val[2]>> \o UnescapeEnumElement(SubSeq(val, 3, Len(val)))
    ELSE <<Head(val)>> \o UnescapeEnumElement(Tail(val))

(* the first map of the enum array branch *)
EnumElement(val) ==
    UnescapeEnumElement(
        IF val # <<>> /\ Head(val) = "\"" /\ val[Len(val)] = "\""
        THEN SliceInner(val) ELSE val)

(* "convert to number if that exists in possible enum options" *)
EnumMember(v, columnMetadata) ==
    IF IsNumeric(v) /\ EnumIndexOf(columnMetadata.enum, ParseInt(v))
    THEN ParseInt(v) ELSE v

EnumArray(v, columnMetadata) ==
    LET parts == Split(SliceInner(v.s), ",")
    IN  Arr([k \in 1..Len(parts) |->
                EnumMember(Str(EnumElement(parts[k])), columnMetadata)])

EmptyArrayLiteral == Str(<<"{", "}">>)

(* `value.replace(/[()\s]+/g, "")` *)
RemoveParentheses(text) ==
    Filter(text, LAMBDA c : c \notin WhiteSpace \cup {"(", ")"})

RECURSIVE StripTrailingZeros(_)
StripTrailingZeros(digits) ==
    IF digits # <<>> /\ digits[Len(digits)] = "0"
    THEN StripTrailingZeros(SubSeq(digits, 1, Len(digits) - 1))
    ELSE digits

(* Number(text) for a text of digits, points and minus signs: an optional  *)
(* sign, digits, and an optional point with more digits, at least one      *)
(* digit in all; anything else is NaN                                      *)
NumberOf(text) ==
    LET negative == text # <<>> /\ Head(text) = "-"
        body == IF negative THEN Tail(text) ELSE text
        parts == Split(body, ".")
        whole == parts[1]
        frac == IF Len(parts) = 2 THEN parts[2] ELSE <<>>
        wellFormed ==
            /\ Len(parts) <= 2
            /\ Len(whole) + Len(frac) > 0
            /\ \A k \in 1..Len(whole) : IsDigit(whole[k])
            /\ \A k \in 1..Len(frac) : IsDigit(frac[k])
    IN  IF ~wellFormed THEN NaN
        ELSE Dec(IF negative THEN 0 - DigitsValue(whole, 0)
                 ELSE DigitsValue(whole, 0),
                 StripTrailingZeros(frac))

(* `.split(",").filter(Boolean).map(Number)` *)
CubeTuple(text) ==
    LET pieces == Filter(Split(text, ","), LAMBDA piece : piece # <<>>)
    IN  Arr([k \in 1..Len(pieces) |-> NumberOf(pieces[k])])

(* the characters the class of the quoted alternative accepts *)
CubeClass == Range(Digits) \cup WhiteSpace \cup {".", ","}

RECURSIVE ClassEnd(_, _)
(* the first position from p whose character is not of the class *)
ClassEnd(text, p) ==
    IF p <= Len(text) /\ text[p] \in CubeClass THEN ClassEnd(text, p + 1) ELSE p

RECURSIVE CubeMatches(_, _)
(* the loop over regexp.exec: the matches from left to right, a quoted run *)
(* of class characters giving a tuple and the token NULL giving undefined; *)
(* the class holds no double quote, so a quoted match ends at the first    *)
(* character outside it                                                    *)
CubeMatches(text, p) ==
    IF p > Len(text) THEN <<>>
    ELSE IF text[p] = "\"" /\ ClassEnd(text, p + 1) <= Len(text)
            /\ text[ClassEnd(text, p + 1)] = "\""
    THEN <<CubeTuple(SubSeq(text, p + 1, ClassEnd(text, p + 1) - 1))>>
             \o CubeMatches(text, ClassEnd(text, p + 1) + 1)
    ELSE IF p + 3 <= Len(text) /\ SubSeq(text, p, p + 3) = NullToken
    THEN <<Undefined>> \o CubeMatches(text, p + 4)
    ELSE CubeMatches(text, p + 1)

(* the cube branch; `value.replace` of a value that is not a string is     *)
(* not a function                                                          *)
CubeValue(v, columnMetadata) ==
    IF TypeOf(v) # "string" THEN Thrown
    ELSE IF columnMetadata.isArray
    THEN Arr(CubeMatches(RemoveParentheses(v.s), 1))
    ELSE CubeTuple(RemoveParentheses(v.s))

(* the type branches of prepareHydratedValue for a stored value that is    *)
(* neither null nor undefined                                              *)
HydratedDecoding(v, columnMetadata) ==
    IF columnMetadata.type = "Boolean" THEN Bool(Truthy(v))
    ELSE IF columnMetadata.type = "hstore"
    THEN IF columnMetadata.hstoreType = "object" THEN HstoreObject(v) ELSE v
    ELSE IF columnMetadata.type = "cube"
    THEN CubeValue(v, columnMetadata)
    ELSE IF columnMetadata.type \in EnumTypes
    THEN IF columnMetadata.isArray THEN EnumArray(v, columnMetadata)
         ELSE EnumMember(v, columnMetadata)
    ELSE IF columnMetadata.type = "Number"
    THEN IF IsNumeric(v) THEN ParseInt(v) ELSE v
    ELSE v

prepareHydratedValue(v, columnMetadata) ==
    IF IsNullish(v)
    THEN IF columnMetadata.transformer THEN transformFrom(v) ELSE v
    ELSE IF /\ columnMetadata.type \in EnumTypes
            /\ columnMetadata.isArray
            /\ v = EmptyArrayLiteral
    THEN Arr(<<>>)
    ELSE IF columnMetadata.transformer
    THEN transformFrom(HydratedDecoding(v, columnMetadata))
    ELSE HydratedDecoding(v, columnMetadata)

-----------------------------------------------------------------------------
(* The columns and values the codec is run on.                             *)

MaxKeyLen == 2

Texts(chars, n) == UNION {[1..k -> chars] : k \in 0..n}

HstoreChars == {"a", "\"", "\\", ",", "=", ">"}

HstoreKeys == Texts(HstoreChars, MaxKeyLen) \cup {NullToken, ProtoKey}

HstoreStrings ==
    Texts(HstoreChars, 1)
        \cup {NullToken, <<"=", ">">>, <<"\\", "\"">>, <<"\"", ",", "\"">>,
              <<"a", "\\">>}

HstoreValues == {Str(s) : s \in HstoreStrings} \cup {Null}

SecondEntries ==
    {[key |-> <<"b">>, val |-> Null],
     [key |-> <<"b", "\"">>, val |-> Str(<<",">>)]}

HstoreObjects ==
    {Obj(<<>>)}
        \cup {Obj(<<[key |-> k, val |-> v]>>) : k \in HstoreKeys, v \in HstoreValues}
        \cup {Obj(<<[key |-> k, val |-> v], e>>) :
                 k \in HstoreKeys, v \in HstoreValues, e \in SecondEntries}

EnumLists ==
    {<<Str(<<"a">>), Str(<<"b">>)>>,
     <<Num(1), Num(2)>>,
     <<Str(<<"1">>), Num(2), Str(<<"a">>)>>,
     <<Num(1), Str(<<"0", "1">>)>>}

MaxCubes == 3

MaxPathLen == 4

(* numeric tuples, with negative and fractional coordinates *)
CubeTuples ==
    {Arr(<<>>), Arr(<<Num(1), Num(2)>>), Arr(<<Num(0 - 1), Num(2)>>),
     Arr(<<Dec(1, <<"5">>)>>), Arr(<<Dec(0 - 2, <<"2", "5">>), Num(0)>>)}

CubeArrays ==
    {Arr(items) : items \in UNION {[1..k -> CubeTuples \cup {Null}] : k \in 0..MaxCubes}}

(* the elements of a cube array literal as PostgreSQL prints them *)
CubeElementTexts ==
    {<<"\"", "(", "1", ",", " ", "2", ")", "\"">>,
     <<"\"", "(", "-", "1", ",", " ", "2", ")", "\"">>,
     <<"\"", "(", "1", ".", "5", ")", "\"">>,
     <<"\"", "(", ")", "\"">>,
     NullToken}

CubeArrayLiterals ==
    {Str(<<"{">> \o Join(elements, <<",">>) \o <<"}">>) :
        elements \in UNION {[1..k -> CubeElementTexts] : k \in 0..MaxCubes}}

LtreePaths ==
    {Str(s) : s \in Texts({"a", ".", " "}, MaxPathLen)}
        \cup {Str(<<"a", " ", "\t", "b", ".", ".", "c">>)}

CodecColumns ==
    {ColumnMetadataOf("hstore", FALSE, h, <<>>, t) :
        h \in {"object", "string"}, t \in BOOLEAN}
        \cup {ColumnMetadataOf("cube", a, "", <<>>, t) :
                 a \in BOOLEAN, t \in BOOLEAN}
        \cup {ColumnMetadataOf("ltree", FALSE, "", <<>>, t) : t \in BOOLEAN}
        \cup {ColumnMetadataOf(type, FALSE, "", <<>>, t) :
                 type \in {"Boolean", "Number", "varchar"}, t \in BOOLEAN}
        \cup {ColumnMetadataOf(type, a, "", e, t) :
                 type \in EnumTypes, a \in BOOLEAN, e \in EnumLists,
                 t \in BOOLEAN}

(* the values an entity may hold for a column, before its transformer *)
DatabaseValues(columnMetadata) ==
    {Null, Undefined}
        \cup CASE columnMetadata.type = "hstore" ->
                    IF columnMetadata.hstoreType = "object" THEN HstoreObjects
                    ELSE {Str(HstoreText(o)) :
                             o \in {Obj(<<e>>) : e \in SecondEntries}}
               [] columnMetadata.type = "Boolean" -> {Bool(TRUE), Bool(FALSE)}
               [] columnMetadata.type = "Number" -> {Num(0), Num(12)}
               [] columnMetadata.type = "cube" ->
                    IF columnMetadata.isArray THEN CubeArrays ELSE CubeTuples
               [] columnMetadata.type = "ltree" -> LtreePaths
               [] columnMetadata.type \in EnumTypes ->
                    IF columnMetadata.isArray
                    THEN {Arr(<<>>), Arr(columnMetadata.enum)}
                    ELSE Range(columnMetadata.enum)
               [] OTHER -> {Str(<<>>), Str(<<"a">>)}

EnumElementTexts ==
    {<<"a">>, <<"1">>, <<"2">>, <<"1", "2">>,
     <<"\"", "a", ",", "b", "\"">>, <<"\"", "a", "\\", "\"", "b", "\"">>,
     <<"\"", "\\", "\\", "\"">>}

ArrayLiterals ==
    {Str(<<"{">> \o Join(elements, <<",">>) \o <<"}">>) :
        elements \in UNION {[1..k -> EnumElementTexts] : k \in 0..2}}

(* the stored values the database may hand back for a column *)
StoredValues(columnMetadata) ==
    {Null, Undefined}
        \cup CASE columnMetadata.type = "hstore" ->
                    {Str(<<>>), Str(<<"\"", "a", "\"", "=", ">", "N", "U", "L", "L">>)}
               [] columnMetadata.type = "Boolean" ->
                    {Bool(TRUE), Bool(FALSE), Num(0), Num(1), Num(2), Num(0 - 1)}
               [] columnMetadata.type = "Number" ->
                    {Num(12), Str(<<"1", "2">>), Str(<<"1", "a">>), Str(<<>>)}
               [] columnMetadata.type = "cube" ->
                    IF columnMetadata.isArray THEN CubeArrayLiterals
                    ELSE {Str(<<"(", "1", ",", " ", "2", ")">>),
                          Str(<<"(", "-", "1", ".", "5", ")">>), Str(<<"(", ")">>)}
               [] columnMetadata.type = "ltree" -> {Str(<<"a", ".", "b">>)}
               [] columnMetadata.type \in EnumTypes ->
                    IF columnMetadata.isArray THEN ArrayLiterals
                    ELSE {Str(<<"a">>), Str(<<"1">>), Str(<<"2">>),
                          Str(<<"1", "2">>), Str(<<>>)}
               [] OTHER -> {Str(<<>>), Str(<<"a">>)}

(* a value on its way to the database, and a stored value on its way back *)
WriteInputs ==
    UNION {{[column |-> c, start |-> "write", raw |-> Absent,
             value |-> IF c.transformer THEN transformFrom(v) ELSE v] :
               v \in DatabaseValues(c)} : c \in CodecColumns}

ReadInputs ==
    UNION {{[column |-> c, start |-> "read", raw |-> r, value |-> Absent] :
               r \in StoredValues(c)} : c \in CodecColumns}

CodecInputs == WriteInputs \cup ReadInputs

(* preparePersistentValue(value, column) *)
Persist ==
    /\ cpc = "write"
    /\ persisted' = preparePersistentValue(value, column)
    /\ cpc' = "stored"
    /\ UNCHANGED <<column, value, raw, hydrated>>
    /\ UNCHANGED notCodecVars

(* the database hands back the text, number or null it was given; how the  *)
(* driver library writes an array is not part of the codec                 *)
Load ==
    /\ cpc = "stored"
    /\ TypeOf(persisted) \in {"string", "number", "null", "undefined"}
    /\ raw' = persisted
    /\ cpc' = "read"
    /\ UNCHANGED <<column, value, persisted, hydrated>>
    /\ UNCHANGED notCodecVars

(* prepareHydratedValue(raw, column) *)
Hydrate ==
    /\ cpc = "read"
    /\ hydrated' = prepareHydratedValue(raw, column)
    /\ cpc' = "hydrated"
    /\ UNCHANGED <<column, value, persisted, raw>>
    /\ UNCHANGED notCodecVars

(* no value is on its way *)
CodecIdle ==
    /\ column = NoColumn
    /\ value = Absent
    /\ persisted = Absent
    /\ raw = Absent
    /\ hydrated = Absent
    /\ cpc = "idle"

-----------------------------------------------------------------------------
(* PostgresDriver.normalizeType.  A column type is the name of a type      *)
(* (StringType), a constructor function such as Number (ClassType) or      *)
(* undefined.                                                              *)

supportedDataTypes ==
    <<
      "int", "int2", "int4", "int8", "smallint", "integer", "bigint",
      "decimal", "numeric", "real", "float", "float4", "float8",
      "double precision", "money", "character varying", "varchar",
      "character", "char", "text", "citext", "hstore", "bytea", "bit",
      "varbit", "bit varying", "timetz", "timestamptz", "timestamp",
      "timestamp without time zone", "timestamp with time zone", "date",
      "time", "time without time zone", "time with time zone", "interval",
      "bool", "boolean", "enum", "point", "line", "lseg", "box", "path",
      "polygon", "circle", "cidr", "inet", "macaddr", "macaddr8",
      "tsvector", "tsquery", "uuid", "xml", "json", "jsonb", "int4range",
      "int8range", "numrange", "tsrange", "tstzrange", "daterange",
      "int4multirange", "int8multirange", "nummultirange", "tsmultirange",
      "tstzmultirange", "datemultirange", "geometry", "geography", "cube",
      "ltree"
    >>

NoType == [kind |-> "undefined", ref |-> ""]

(* a table in which int is an alias of int4, not of integer *)
TypeAliasByWayOfInt4(type) ==
    CASE type = StringType("int") -> "int4"
      [] type \in {ClassType("Number"), StringType("int4")} -> "integer"
      [] OTHER -> ""

(* the branches of normalizeType that return a fixed name: the name for    *)
(* the given type, "" when no branch but the last applies                  *)
TypeAlias(type) ==
    CASE type \in {ClassType("Number"), StringType("int"), StringType("int4")}
             -> "integer"
      [] type \in {ClassType("String"), StringType("varchar")}
             -> "character varying"
      [] type \in {ClassType("Date"), StringType("timestamp")}
             -> "timestamp without time zone"
      [] type = StringType("timestamptz") -> "timestamp with time zone"
      [] type = StringType("time") -> "time without time zone"
      [] type = StringType("timetz") -> "time with time zone"
      [] type \in {ClassType("Boolean"), StringType("bool")} -> "boolean"
      [] type = StringType("simple-array") -> "text"
      [] type = StringType("simple-json") -> "text"
      [] type = StringType("simple-enum") -> "enum"
      [] type = StringType("int2") -> "smallint"
      [] type = StringType("int8") -> "bigint"
      [] type = StringType("decimal") -> "numeric"
      [] type \in {StringType("float8"), StringType("float")}
             -> "double precision"
      [] type = StringType("float4") -> "real"
      [] type = StringType("char") -> "character"
      [] type = StringType("varbit") -> "bit varying"
      [] OTHER -> ""

(* normalizeType(column); the last branch is `column.type || ""`, which    *)
(* hands a constructor function it does not know back as it is             *)
normalizeType(columnMetadata) ==
    IF TypeAlias(columnMetadata.type) # ""
    THEN StringType(TypeAlias(columnMetadata.type))
    ELSE IF columnMetadata.type.kind = "undefined"
            \/ columnMetadata.type = StringType("")
    THEN StringType("")
    ELSE columnMetadata.type

(* the column types normalizeType is called with *)
ColumnTypes ==
    {StringType(supportedDataTypes[k]) : k \in 1..Len(supportedDataTypes)}
        \cup {StringType("simple-array"), StringType("simple-json"),
              StringType("simple-enum"), StringType("unknown"),
              StringType("")}
        \cup {ClassType("Number"), ClassType("String"), ClassType("Date"),
              ClassType("Boolean"), ClassType("Object"), NoType}

TypeIdle ==
    /\ columnType = NoType
    /\ normalized = NoType
    /\ renormalized = NoType
    /\ tpc = "idle"

(* normalizeType({type: columnType}) *)
Normalize ==
    /\ tpc = "start"
    /\ normalized' = normalizeType([type |-> columnType])
    /\ tpc' = "once"
    /\ UNCHANGED <<columnType, renormalized>>
    /\ UNCHANGED <<buildVars, codecVars, queryVars, driverVars>>

(* normalizeType({type: normalized}) *)
NormalizeAgain ==
    /\ tpc = "once"
    /\ renormalized' = normalizeType([type |-> normalized])
    /\ tpc' = "twice"
    /\ UNCHANGED <<columnType, normalized>>
    /\ UNCHANGED <<buildVars, codecVars, queryVars, driverVars>>

-----------------------------------------------------------------------------
(* PostgresDriver.escapeQueryWithParameters.  The SQL is the sequence of   *)
(* its characters; an ObjectLiteral is the sequence of its entries         *)
(* [key, value] in key order.                                              *)

(* a function-valued parameter; `text` is what the function returns *)
Func(text) == JsValue("function", text, 0, <<>>, <<>>)

parametersPrefix == <<"$">>

(* a parameter numbered from zero *)
createParameterFromZero(parameterName, index) ==
    parametersPrefix \o IntToText(index)

createParameter(parameterName, index) ==
    parametersPrefix \o IntToText(index + 1)

(* the characters of the class [A-Za-z0-9_.]; a and b are the letters *)
KeyChars == Range(Digits) \cup {"a", "b", "_", "."}

RECURSIVE KeyEnd(_, _)
(* the last position of the longest run of key characters that starts at   *)
(* position p of the SQL, p - 1 when there is none                         *)
KeyEnd(sql, p) ==
    IF p <= Len(sql) /\ sql[p] \in KeyChars THEN KeyEnd(sql, p + 1) ELSE p - 1

NoParameterMatch == [found |-> FALSE, isArray |-> FALSE, key |-> <<>>, end |-> 0]

(* the match of /:(\.\.\.)?([A-Za-z0-9_.]+)/ that starts at position p: the *)
(* three points are the first group only if a key follows them, otherwise  *)
(* they are part of the key                                                *)
ParameterMatchAt(sql, p) ==
    IF sql[p] # ":" THEN NoParameterMatch
    ELSE IF /\ p + 3 <= Len(sql)
            /\ SubSeq(sql, p + 1, p + 3) = <<".", ".", ".">>
            /\ KeyEnd(sql, p + 4) >= p + 4
    THEN [found |-> TRUE, isArray |-> TRUE,
          key |-> SubSeq(sql, p + 4, KeyEnd(sql, p + 4)),
          end |-> KeyEnd(sql, p + 4)]
    ELSE IF KeyEnd(sql, p + 1) >= p + 1
    THEN [found |-> TRUE, isArray |-> FALSE,
          key |-> SubSeq(sql, p + 1, KeyEnd(sql, p + 1)),
          end |-> KeyEnd(sql, p + 1)]
    ELSE NoParameterMatch

(* what takes the place of a part `full` of the SQL: `kind` is "text" for  *)
(* the characters between the matches, "kept" for a match that is left as  *)
(* it is, "param" for a placeholder, "spread" for the placeholders of an   *)
(* array and "inline" for the return value of a function                   *)
Piece(kind, full, text, key) ==
    [kind |-> kind, full |-> full, text |-> text, key |-> key]

(* the placeholders of the elements of an array, pushed after `length`     *)
(* parameters                                                              *)
SpreadText(key, n, length) ==
    Join([k \in 1..n |-> createParameter(key, length + k - 1)], <<",", " ">>)

(* the callback of sql.replace for one match; `st` holds the pieces so     *)
(* far, escapedParameters, parameterIndexMap and whether it has thrown     *)
ReplaceParameter(m, full, parameters, st) ==
    LET own == FindIndex(parameters, LAMBDA e : e.key = m.key)
        seen == FindIndex(st.parameterIndexMap, LAMBDA e : e.key = m.key)
        v == parameters[own].value
    IN  IF own = 0
        THEN [st EXCEPT !.pieces = Append(@, Piece("kept", full, full, m.key))]
        ELSE IF seen # 0
        THEN [st EXCEPT !.pieces =
                 Append(@, Piece("param", full,
                            parametersPrefix \o
                                IntToText(st.parameterIndexMap[seen].index),
                            m.key))]
        ELSE IF m.isArray
        THEN IF TypeOf(v) # "array"
             THEN [st EXCEPT !.thrown = TRUE]
             ELSE [st EXCEPT
                      !.pieces =
                          Append(@, Piece("spread", full,
                                     SpreadText(m.key, Len(v.items),
                                                Len(st.escapedParameters)),
                                     m.key)),
                      !.escapedParameters = @ \o v.items]
        ELSE IF TypeOf(v) = "function"
        THEN [st EXCEPT !.pieces = Append(@, Piece("inline", full, v.s, m.key))]
        ELSE [st EXCEPT
                 !.pieces =
                     Append(@, Piece("param", full,
                                createParameter(m.key, Len(st.escapedParameters)),
                                m.key)),
                 !.escapedParameters = Append(@, v),
                 !.parameterIndexMap =
                     Append(@, [key |-> m.key,
                                index |-> Len(st.escapedParameters) + 1])]

RECURSIVE ReplaceFrom(_, _, _, _)
(* sql.replace(regexp, callback) from position p on *)
ReplaceFrom(sql, p, parameters, st) ==
    IF p > Len(sql) \/ st.thrown THEN st
    ELSE LET m == ParameterMatchAt(sql, p)
         IN  IF ~m.found
             THEN ReplaceFrom(sql, p + 1, parameters,
                      [st EXCEPT !.pieces =
                          Append(@, Piece("text", <<sql[p]>>, <<sql[p]>>, <<>>))])
             ELSE ReplaceFrom(sql, m.end + 1, parameters,
                      ReplaceParameter(m, SubSeq(sql, p, m.end), parameters, st))

RECURSIVE PiecesText(_)
(* the string made of the pieces *)
PiecesText(pieces) ==
    IF pieces = <<>> THEN <<>>
    ELSE Head(pieces).text \o PiecesText(Tail(pieces))

(* escapeQueryWithParameters(sql, parameters, nativeParameters): the SQL   *)
(* and the parameter array it returns, with the pieces the SQL is made of; *)
(* `parameters` is NoList when it is undefined                             *)
escapeQueryWithParameters(sql, parameters, nativeParameters) ==
    LET escapedParameters == Map(nativeParameters, LAMBDA e : e.value)
        st == ReplaceFrom(sql, 1, OrEmpty(parameters),
                  [pieces |-> <<>>, escapedParameters |-> escapedParameters,
                   parameterIndexMap |-> <<>>, thrown |-> FALSE])
    IN  IF ~parameters.def \/ Len(parameters.val) = 0
        THEN [sql |-> sql, parameters |-> escapedParameters,
              pieces |-> <<>>, replaced |-> FALSE, thrown |-> FALSE]
        ELSE [sql |-> PiecesText(st.pieces), parameters |-> st.escapedParameters,
              pieces |-> st.pieces, replaced |-> TRUE, thrown |-> st.thrown]

MaxSqlLen == 6

SqlChars == {":", ".", "a", "b"}

SqlTexts == Texts(SqlChars, MaxSqlLen)

(* the `parameters` argument: undefined, empty, scalars, arrays, functions *)
ParameterObjects ==
    {NoList, List(<<>>),
     List(<<[key |-> <<"a">>, value |-> Num(7)]>>),
     List(<<[key |-> <<"a">>, value |-> Arr(<<>>)]>>),
     List(<<[key |-> <<"a">>, value |-> Func(<<"b">>)]>>),
     List(<<[key |-> <<"a">>, value |-> Num(7)],
            [key |-> <<"b">>, value |-> Arr(<<Num(8), Num(9)>>)]>>),
     List(<<[key |-> <<"b">>, value |-> Func(<<"b">>)],
            [key |-> <<"a">>, value |-> Str(<<"x">>)]>>),
     List(<<[key |-> <<"a", ".", "b">>, value |-> Num(7)],
            [key |-> <<"b">>, value |-> Func(<<"b">>)]>>)}

NativeParameterObjects ==
    {<<>>,
     <<[key |-> <<"n">>, value |-> Num(5)],
       [key |-> <<"m">>, value |-> Str(<<"y">>)]>>}

QueryOf(sql, parameters, nativeParameters) ==
    [sql |-> sql, parameters |-> parameters,
     nativeParameters |-> nativeParameters]

NoQuery == QueryOf(<<>>, NoList, <<>>)

NoEscaped ==
    [sql |-> <<>>, parameters |-> <<>>, pieces |-> <<>>, replaced |-> FALSE,
     thrown |-> FALSE]

QueryIdle ==
    /\ query = NoQuery
    /\ escaped = NoEscaped
    /\ qpc = "idle"

(* escapeQueryWithParameters(query.sql, query.parameters, ...) *)
Escape ==
    /\ qpc = "start"
    /\ escaped' = escapeQueryWithParameters(query.sql, query.parameters,
                                            query.nativeParameters)
    /\ qpc' = "done"
    /\ UNCHANGED query
    /\ UNCHANGED <<buildVars, codecVars, typeVars, driverVars>>

-----------------------------------------------------------------------------
(* PostgresDriver's pools and extensions.  A pool is referred to by its    *)
(* index in `pools`; 0 is `undefined`.  The methods of the driver are      *)
(* called one after the other; `call` is the method that is running.       *)

Call(method, step) == [method |-> method, step |-> step]

NoCall == Call("none", "")

Outcome(method, result) == [method |-> method, result |-> result]

NoOutcome == Outcome("none", "")

Methods == {"connect", "afterConnect", "disconnect", "obtainMasterConnection"}

(* the extensions in the order enableExtensions installs them *)
Extensions ==
    <<"uuid", "citext", "hstore", "postgis", "cube", "ltree", "btree_gist">>

ExtensionIndex(extension) ==
    CHOOSE j \in 1..Len(Extensions) : Extensions[j] = extension

Warn(extension) == [level |-> "warn", extension |-> extension]

Attempt(extension, failed) == [extension |-> extension, failed |-> failed]

(* an installation whose failure is thrown on *)
enableExtensionUncaught(extension, fails, st) ==
    [st EXCEPT !.attempted = Append(@, Attempt(extension, fails)),
               !.thrown = fails]

(* one `if (has...) try { await this.executeQuery(...) } catch (_) {        *)
(* logger.log("warn", ...) }` of enableExtensions                          *)
enableExtension(extension, fails, st) ==
    [st EXCEPT !.attempted = Append(@, Attempt(extension, fails)),
               !.logged = IF fails THEN Append(@, Warn(extension)) ELSE @]

(* `installExtensions === undefined || installExtensions` *)
InstallExtensions(o) == o.installExtensions \in {"undefined", "true"}

(* extensionsMetadata.hasExtensions *)
HasExtensions(o) == o.extensionsMetadata # {}

(* the number of the first extension from k on that the metadata need,     *)
(* Len(Extensions) + 1 when there is none                                  *)
NextExtension(o, k) ==
    LET needed == {j \in k..Len(Extensions) :
                      Extensions[j] \in o.extensionsMetadata}
    IN  IF needed = {} THEN Len(Extensions) + 1
        ELSE CHOOSE j \in needed : \A i \in needed : j <= i

(* a closePool that ends the pool whatever runners are connected *)
NoRunnersLeft(runners) == FALSE

(* `while (this.connectedQueryRunners.length)` of closePool *)
RunnersLeft(runners) == runners > 0

(* QueryRunner.release(): the runner leaves connectedQueryRunners *)
ReleaseRunner(runners) == runners - 1

(* the pools connect() creates *)
PoolsOf(o) == IF o.replication THEN o.slaves + 1 ELSE 1

MaxPools == 3

MaxRunners == 2

MaxSlaves == 2

DriverIdle ==
    /\ options = [replication |-> FALSE, slaves |-> 0,
                  installExtensions |-> "undefined",
                  extensionsMetadata |-> {}]
    /\ master = 0
    /\ slaves = <<>>
    /\ pools = <<>>
    /\ connectedQueryRunners = 0
    /\ call = NoCall
    /\ outcome = NoOutcome
    /\ logged = <<>>
    /\ attempted = <<>>
    /\ released = 0

notDriverVars == <<buildVars, codecVars, typeVars, queryVars>>

(* a method of the driver is called *)
CallMethod ==
    /\ call = NoCall
    /\ \E method \in Methods : call' = Call(method, "start")
    /\ UNCHANGED <<options, master, slaves, pools, connectedQueryRunners,
                   outcome, logged, attempted, released>>
    /\ UNCHANGED notDriverVars

(* connect(): the pools are created; creating a pool or asking for the     *)
(* version may fail                                                        *)
Connect ==
    /\ call = Call("connect", "start")
    /\ Len(pools) + PoolsOf(options) <= MaxPools
    /\ \E result \in {"ok", "slave fails", "master fails", "query fails"} :
          LET n == Len(pools)
              newSlaves == [k \in 1..options.slaves |-> n + k]
          IN  /\ result = "slave fails" =>
                     options.replication /\ options.slaves > 0
              /\ IF result = "slave fails"
                 THEN /\ pools' = pools \o [k \in 1..options.slaves |-> "open"]
                      /\ UNCHANGED <<master, slaves>>
                 ELSE /\ pools' = pools \o [k \in 1..PoolsOf(options) |-> "open"]
                      /\ slaves' = IF options.replication THEN newSlaves
                                   ELSE slaves
                      /\ master' = IF result = "master fails" THEN master
                                   ELSE n + PoolsOf(options)
              /\ outcome' = Outcome("connect",
                                IF result = "ok" THEN "ok" ELSE "error")
    /\ call' = NoCall
    /\ UNCHANGED <<options, connectedQueryRunners, logged, attempted, released>>
    /\ UNCHANGED notDriverVars

(* a query runner connects to the master pool *)
RunnerConnect ==
    /\ call = NoCall
    /\ master # 0
    /\ pools[master] = "open"
    /\ connectedQueryRunners < MaxRunners
    /\ connectedQueryRunners' = connectedQueryRunners + 1
    /\ UNCHANGED <<options, master, slaves, pools, call, outcome, logged,
                   attempted, released>>
    /\ UNCHANGED notDriverVars

(* a connected query runner is released by its user *)
RunnerRelease ==
    /\ call = NoCall
    /\ connectedQueryRunners > 0
    /\ connectedQueryRunners' = ReleaseRunner(connectedQueryRunners)
    /\ UNCHANGED <<options, master, slaves, pools, call, outcome, logged,
                   attempted, released>>
    /\ UNCHANGED notDriverVars

(* obtainMasterConnection() called from outside; the connection it gives   *)
(* is released by the caller                                               *)
ObtainMasterConnection ==
    /\ call = Call("obtainMasterConnection", "start")
    /\ \E fails \in BOOLEAN :
          outcome' = Outcome("obtainMasterConnection",
                         IF master = 0 THEN "Driver not Connected"
                         ELSE IF fails THEN "error" ELSE "ok")
    /\ call' = NoCall
    /\ UNCHANGED <<options, master, slaves, pools, connectedQueryRunners,
                   logged, attempted, released>>
    /\ UNCHANGED notDriverVars

(* afterConnect() up to the call of enableExtensions *)
AfterConnect ==
    /\ call = Call("afterConnect", "start")
    /\ logged' = <<>>
    /\ attempted' = <<>>
    /\ released' = 0
    /\ \E fails \in BOOLEAN :
          IF master = 0 \/ fails
          THEN /\ outcome' = Outcome("afterConnect",
                                 IF master = 0 THEN "Driver not Connected"
                                 ELSE "error")
               /\ call' = NoCall
          ELSE /\ call' = IF InstallExtensions(options) /\ HasExtensions(options)
                          THEN Call("afterConnect", "enableExtensions")
                          ELSE Call("afterConnect", "release")
               /\ UNCHANGED outcome
    /\ UNCHANGED <<options, master, slaves, pools, connectedQueryRunners>>
    /\ UNCHANGED notDriverVars

(* enableExtensions: the next extension the metadata need is installed *)
EnableExtension ==
    /\ call = Call("afterConnect", "enableExtensions")
    /\ LET k == NextExtension(options,
                   IF attempted = <<>> THEN 1
                   ELSE ExtensionIndex(attempted[Len(attempted)].extension) + 1)
       IN  IF k > Len(Extensions)
           THEN /\ call' = Call("afterConnect", "release")
                /\ UNCHANGED <<logged, attempted, outcome>>
           ELSE \E fails \in BOOLEAN :
                   LET st == enableExtension(Extensions[k], fails,
                                 [attempted |-> attempted, logged |-> logged,
                                  thrown |-> FALSE])
                   IN  /\ attempted' = st.attempted
                       /\ logged' = st.logged
                       /\ IF st.thrown
                          THEN /\ outcome' = Outcome("afterConnect", "error")
                               /\ call' = NoCall
                          ELSE UNCHANGED <<call, outcome>>
    /\ UNCHANGED <<options, master, slaves, pools, connectedQueryRunners,
                   released>>
    /\ UNCHANGED notDriverVars

(* `await release()` at the end of afterConnect *)
AfterConnectRelease ==
    /\ call = Call("afterConnect", "release")
    /\ released' = released + 1
    /\ outcome' = Outcome("afterConnect", "ok")
    /\ call' = NoCall
    /\ UNCHANGED <<options, master, slaves, pools, connectedQueryRunners,
                   logged, attempted>>
    /\ UNCHANGED notDriverVars

(* disconnect() up to the first closePool *)
Disconnect ==
    /\ call = Call("disconnect", "start")
    /\ IF master = 0
       THEN /\ outcome' = Outcome("disconnect", "ConnectionIsNotSetError")
            /\ call' = NoCall
       ELSE /\ call' = Call("disconnect", "master")
            /\ UNCHANGED outcome
    /\ UNCHANGED <<options, master, slaves, pools, connectedQueryRunners,
                   logged, attempted, released>>
    /\ UNCHANGED notDriverVars

(* closePool: `await this.connectedQueryRunners[0].release()` *)
ClosePoolRelease ==
    /\ call.method = "disconnect"
    /\ call.step \in {"master", "slaves"}
    /\ RunnersLeft(connectedQueryRunners)
    /\ connectedQueryRunners' = ReleaseRunner(connectedQueryRunners)
    /\ UNCHANGED <<options, master, slaves, pools, call, outcome, logged,
                   attempted, released>>
    /\ UNCHANGED notDriverVars

(* closePool(this.master): pool.end, which may fail *)
ClosePoolMaster ==
    /\ call = Call("disconnect", "master")
    /\ ~RunnersLeft(connectedQueryRunners)
    /\ \E fails \in BOOLEAN :
          IF fails
          THEN /\ outcome' = Outcome("disconnect", "error")
               /\ call' = NoCall
               /\ UNCHANGED pools
          ELSE /\ pools' = [pools EXCEPT ![master] = "ended"]
               /\ call' = Call("disconnect", "slaves")
               /\ UNCHANGED outcome
    /\ UNCHANGED <<options, master, slaves, connectedQueryRunners, logged,
                   attempted, released>>
    /\ UNCHANGED notDriverVars

(* `await Promise.all(this.slaves.map((slave) => this.closePool(slave)))`  *)
(* and the two assignments after it; the pools in `failing` do not end     *)
ClosePoolSlaves ==
    /\ call = Call("disconnect", "slaves")
    /\ ~RunnersLeft(connectedQueryRunners)
    /\ \E failing \in SUBSET Range(slaves) :
          /\ pools' = [p \in 1..Len(pools) |->
                          IF p \in Range(slaves) \ failing THEN "ended"
                          ELSE pools[p]]
          /\ IF failing = {}
             THEN /\ master' = 0
                  /\ slaves' = <<>>
                  /\ outcome' = Outcome("disconnect", "ok")
             ELSE /\ outcome' = Outcome("disconnect", "error")
                  /\ UNCHANGED <<master, slaves>>
    /\ call' = NoCall
    /\ UNCHANGED <<options, connectedQueryRunners, logged, attempted, released>>
    /\ UNCHANGED notDriverVars

-----------------------------------------------------------------------------
(* build() over a storage, and over the same storage again.                *)

Init ==
    /\ \E input \in Inputs :
          /\ proto = input.proto
          /\ storage = input.storage
    /\ storage0 = storage
    /\ pc = "create"
    /\ idx = 1
    /\ snap = 0
    /\ ems = <<>>
    /\ cols = <<>>
    /\ rels = <<>>
    /\ inds = <<>>
    /\ junctions = <<>>
    /\ error = NoError
    /\ run = 1
    /\ first = NoResult
    /\ CodecIdle
    /\ TypeIdle
    /\ QueryIdle
    /\ DriverIdle

Next ==
    \/ CreateEntityMetadatas
    \/ BuildStep0
    \/ Step1
    \/ Step2
    \/ ComputeInverseProperties
    \/ CreateJunctionEntityMetadatas
    \/ CreateClosureJunctions
    \/ CreateKeysForTableInheritance
    \/ BuildIndices
    \/ CreateForeignKeys
    \/ SetGeneratedColumns
    \/ NextPass
    \/ Rebuild

vars == <<buildVars, codecVars, typeVars, queryVars, driverVars>>

Spec == Init /\ [][Next]_vars

(* no build() is called *)
BuildIdle ==
    /\ proto = NoProto
    /\ storage = EmptyStorage
    /\ storage0 = EmptyStorage
    /\ pc = "idle"
    /\ idx = 1
    /\ snap = 0
    /\ ems = <<>>
    /\ cols = <<>>
    /\ rels = <<>>
    /\ inds = <<>>
    /\ junctions = <<>>
    /\ error = NoError
    /\ run = 1
    /\ first = NoResult

(* A value is written to a column and read back, or a stored value is read. *)
CodecInit ==
    /\ \E input \in CodecInputs :
          /\ column = input.column
          /\ value = input.value
          /\ raw = input.raw
          /\ cpc = input.start
    /\ persisted = Absent
    /\ hydrated = Absent
    /\ BuildIdle
    /\ TypeIdle
    /\ QueryIdle
    /\ DriverIdle

CodecNext ==
    \/ Persist
    \/ Load
    \/ Hydrate

CodecSpec == CodecInit /\ [][CodecNext]_vars

(* A column type is normalized, and the result is normalized again. *)
TypeInit ==
    /\ columnType \in ColumnTypes
    /\ normalized = NoType
    /\ renormalized = NoType
    /\ tpc = "start"
    /\ BuildIdle
    /\ CodecIdle
    /\ QueryIdle
    /\ DriverIdle

TypeNext ==
    \/ Normalize
    \/ NormalizeAgain

TypeSpec == TypeInit /\ [][TypeNext]_vars

(* A query with named parameters is escaped. *)
QueryInit ==
    /\ query \in {QueryOf(sql, parameters, nativeParameters) :
                      sql \in SqlTexts, parameters \in ParameterObjects,
                      nativeParameters \in NativeParameterObjects}
    /\ escaped = NoEscaped
    /\ qpc = "start"
    /\ BuildIdle
    /\ CodecIdle
    /\ TypeIdle
    /\ DriverIdle

QueryNext == Escape

QuerySpec == QueryInit /\ [][QueryNext]_vars

(* The driver is connected and disconnected, and its extensions installed. *)
ExtensionsMetadatas ==
    {{}, {"uuid"}, {"citext", "postgis"}, {"hstore", "cube", "btree_gist"},
     {"uuid", "postgis", "ltree", "btree_gist"}}

DriverOptions ==
    {[replication |-> r, slaves |-> n, installExtensions |-> i,
      extensionsMetadata |-> m] :
        r \in BOOLEAN, n \in 0..MaxSlaves,
        i \in {"undefined", "true", "false"}, m \in ExtensionsMetadatas}

DriverInit ==
    /\ options \in {o \in DriverOptions : ~o.replication => o.slaves = 0}
    /\ master = 0
    /\ slaves = <<>>
    /\ pools = <<>>
    /\ connectedQueryRunners = 0
    /\ call = NoCall
    /\ outcome = NoOutcome
    /\ logged = <<>>
    /\ attempted = <<>>
    /\ released = 0
    /\ BuildIdle
    /\ CodecIdle
    /\ TypeIdle
    /\ QueryIdle

DriverNext ==
    \/ CallMethod
    \/ Connect
    \/ RunnerConnect
    \/ RunnerRelease
    \/ ObtainMasterConnection
    \/ AfterConnect
    \/ EnableExtension
    \/ AfterConnectRelease
    \/ Disconnect
    \/ ClosePoolRelease
    \/ ClosePoolMaster
    \/ ClosePoolSlaves

DriverSpec == DriverInit /\ [][DriverNext]_vars


-----------------------------------------------------------------------------
(* Properties of build().                                                  *)

Returned == pc = "done"

EntityChildren == {i \in 1..Len(ems) : ems[i].tableType = "entity-child"}

(* the property names of the columns declared on a class of the tree *)
DeclaredColumnNames(tree) ==
    {storage0.columns[k].propertyName :
        k \in {j \in 1..Len(storage0.columns) : Contains(tree, storage0.columns[j].target)}}

ColumnsNamed(refs, name) ==
    {p \in 1..Len(refs) : refs[p] # 0 /\ cols[refs[p]].propertyName = name}

(* C1: after build(), for every single-table child and every column        *)
(* declared in its inheritance tree, the child's ownColumns holds, for     *)
(* that property name, the very ColumnMetadata instance that its parent's  *)
(* ownColumns holds for it: never another instance, never undefined.       *)
C1_ChildSharesParentColumns ==
    Returned =>
        \A i \in EntityChildren :
            /\ ems[i].parentEntityMetadata # 0
            /\ ~Contains(ems[i].ownColumns, 0)
            /\ \A name \in DeclaredColumnNames(ems[i].inheritanceTree) :
                  LET parentOwn == ems[ems[i].parentEntityMetadata].ownColumns
                      inParent == ColumnsNamed(parentOwn, name)
                      inChild == ColumnsNamed(ems[i].ownColumns, name)
                  IN  /\ inParent # {}
                      /\ inChild # {}
                      /\ \A p \in inChild :
                            ems[i].ownColumns[p] =
                                parentOwn[CHOOSE q \in inParent :
                                              \A o \in inParent : q <= o]

(* a returned single-table child that shares two declared columns, one of  *)
(* them declared on the child class itself                                 *)
C1_Witness ==
    /\ Returned
    /\ \E i \in EntityChildren :
          /\ Cardinality(DeclaredColumnNames(ems[i].inheritanceTree)) >= 2
          /\ \E p \in 1..Len(ems[i].ownColumns) :
                /\ cols[ems[i].ownColumns[p]].target = ems[i].target
                /\ Contains(ems[ems[i].parentEntityMetadata].ownColumns,
                            ems[i].ownColumns[p])

ManyToManyRelations ==
    {r \in 1..Len(rels) : rels[r].relationType = "many-to-many"}

HasJoinTable(r) == FindJoinTable(rels[r].target, rels[r].propertyName) # 0

JunctionInReturnedSet(j) ==
    \E i \in 1..Len(ems) : ems[i].isJunction /\ ems[i].jid = j

SameNamedUserTable(tableName) ==
    \E i \in 1..Len(ems) : ~ems[i].isJunction /\ ems[i].tableName = tableName

(* C2: a many-to-many relation with a join-table declaration gets exactly  *)
(* one junction entity metadata, which is missing from the returned set    *)
(* iff the set holds a non-junction entity metadata with the same table    *)
(* name; a many-to-many relation without a join table gets no junction.    *)
C2_OneJunctionPerOwningRelation ==
    Returned =>
        /\ \A r \in ManyToManyRelations :
              IF HasJoinTable(r)
              THEN /\ rels[r].registered = 1
                   /\ rels[r].junctionEntityMetadata \in 1..Len(junctions)
                   /\ ~JunctionInReturnedSet(rels[r].junctionEntityMetadata)
                        <=> SameNamedUserTable(
                               junctions[rels[r].junctionEntityMetadata].tableName)
              ELSE /\ rels[r].registered = 0
                   /\ rels[r].junctionEntityMetadata = 0
        /\ Len(junctions) = Cardinality({r \in ManyToManyRelations : HasJoinTable(r)})
        /\ \A i, k \in 1..Len(ems) :
              ems[i].isJunction /\ ems[k].isJunction /\ ems[i].jid = ems[k].jid
                  => i = k

(* a junction was built and dropped in favour of a user-defined table *)
C2_Witness ==
    /\ Returned
    /\ \E r \in ManyToManyRelations :
          /\ HasJoinTable(r)
          /\ rels[r].junctionEntityMetadata # 0
          /\ ~JunctionInReturnedSet(rels[r].junctionEntityMetadata)
    /\ \E r \in ManyToManyRelations : ~HasJoinTable(r)

(* the entity classes of the working set *)
WorkingTables == Filter(storage0.tables,
                        LAMBDA t : t.type \in {"regular", "closure", "entity-child", "view"})

TableMatchesType(t, type) ==
    \/ type.kind = "class" /\ t.target = type.ref
    \/ type.kind = "string" /\ (t.target = type.ref \/ t.name = type.ref)

(* the relation declarations, made on a class of the working set, whose    *)
(* target type is no entity of the working set                             *)
DanglingRelations ==
    {k \in 1..Len(storage0.relations) :
        /\ \E p \in 1..Len(WorkingTables) :
              WorkingTables[p].target = storage0.relations[k].target
        /\ \A p \in 1..Len(WorkingTables) :
              ~TableMatchesType(WorkingTables[p], storage0.relations[k].type)}

(* C3: when a relation's target type matches no entity metadata, build()  *)
(* throws a TypeORMError naming the owning entity and the property path   *)
(* of such a relation, and returns no metadata set.                       *)
C3_UnresolvedRelationTargetThrows ==
    DanglingRelations # {} =>
        /\ ~Returned
        /\ pc = "thrown" =>
              /\ error.kind = "TypeORMError"
              /\ \E k \in DanglingRelations :
                    /\ error.path = storage0.relations[k].propertyName
                    /\ error.entity = storage0.relations[k].target

(* build() has thrown for a relation whose target is no entity of the set *)
C3_Witness ==
    /\ pc = "thrown"
    /\ DanglingRelations # {}
    /\ error.kind = "TypeORMError"

IsDiscriminatorIndex(em, x) ==
    /\ ~inds[x].isUnique
    /\ \/ inds[x].synthesized /\ inds[x].columns = <<em.discriminatorColumn>>
       \/ inds[x].givenColumnNames = <<cols[em.discriminatorColumn].databaseName>>

(* C4: in the returned set every entity with inheritance pattern STI and a *)
(* discriminator column has, in its indices, a non-unique index on exactly *)
(* the discriminator column (synthesized or user-declared).                *)
C4_DiscriminatorIsIndexed ==
    Returned =>
        \A i \in 1..Len(ems) :
            ems[i].inheritancePattern = "STI" /\ ems[i].discriminatorColumn # 0
                => \E p \in 1..Len(ems[i].indices) :
                       IsDiscriminatorIndex(ems[i], ems[i].indices[p])

(* C5: a second build() over the same storage returns the same entities,   *)
(* columns and physical names as the first.                                *)
C5_RebuildIsIdentical ==
    Returned /\ run = 2 => ResultOf(ems, cols, inds) = first

(* the foreign-key declarations that apply to entity metadata i *)
ForeignKeyDeclarations(i) ==
    {k \in 1..Len(storage0.foreignKeys) :
        Contains(ems[i].inheritanceTree, storage0.foreignKeys[k].target)}

(* the referenced column names a declaration gives, the inverse side last *)
NamedReferencedColumns(decl) ==
    OrEmpty(decl.referencedColumnNames)
        \o (IF decl.inverseSide # "" THEN <<decl.inverseSide>> ELSE <<>>)

ForeignKeysOf(i, k) ==
    {p \in 1..Len(ems[i].foreignKeys) : ems[i].foreignKeys[p].declaration = k}

C7_EveryEntityHasPrimaryColumn ==
    Returned => \A i \in 1..Len(ems) : Len(ems[i].primaryColumns) > 0

(* both sides of one many-to-many relation are declared with a join table *)
BothSidesDeclareJoinTable ==
    \E a, b \in 1..Len(storage0.relations) :
        LET ra == storage0.relations[a]
            rb == storage0.relations[b]
        IN  /\ a # b
            /\ ra.relationType = "many-to-many" /\ rb.relationType = "many-to-many"
            /\ ra.inverseSide = rb.propertyName
            /\ \E p \in 1..Len(WorkingTables) :
                  /\ WorkingTables[p].target = rb.target
                  /\ TableMatchesType(WorkingTables[p], ra.type)
            /\ FindJoinTable(ra.target, ra.propertyName) # 0
            /\ FindJoinTable(rb.target, rb.propertyName) # 0

-----------------------------------------------------------------------------
(* Properties of the value codec.                                          *)

(* an hstore map went through preparePersistentValue and came back through *)
(* prepareHydratedValue                                                    *)
HstoreRoundTripDone ==
    /\ cpc = "hydrated"
    /\ column.type = "hstore"
    /\ column.hstoreType = "object"
    /\ ~column.transformer
    /\ TypeOf(value) = "object"

(* C9: for an hstore column of hstoreType object, decoding the encoding of *)
(* a map with string keys and string or null values gives the map back; a  *)
(* null value is written as the unquoted token NULL, the string "NULL" in  *)
(* double quotes.                                                          *)
C9_HstoreRoundTrip ==
    HstoreRoundTripDone =>
        /\ hydrated = value
        /\ Len(value.entries) = 1 =>
              LET val == value.entries[1].val
                  written == SubSeq(persisted.s, Len(persisted.s) - 3,
                                    Len(persisted.s))
              IN  /\ val = Null => written = NullToken
                  /\ val = Str(NullToken) => written = <<"U", "L", "L", "\"">>

(* C10: with a transformer, what is written is the encoding of transformTo *)
(* of the entity value, and what is read is transformFrom of the decoding  *)
(* of the stored value, transformFrom being applied once whatever the      *)
(* stored value, the column type and the array flag.                       *)
C10_TransformerOrder ==
    column.transformer =>
        /\ persisted # Absent =>
              persisted = PersistentEncoding(transformTo(value), column)
        /\ hydrated # Absent =>
              /\ hydrated.boxed = 1
              /\ hydrated =
                    transformFrom(
                        prepareHydratedValue(raw,
                            [column EXCEPT !.transformer = FALSE]))

(* the value preparePersistentValue examines: the entity value after the   *)
(* column's transformer                                                    *)
ValueToEncode == IF column.transformer THEN transformTo(value) ELSE value

(* C11: a value that is null or undefined after the user transformer is    *)
(* written unchanged, whatever the column type; a null or undefined stored *)
(* value is read unchanged by a column without transformer and as          *)
(* transformFrom of it by a column with one, no type decoding applied.     *)
C11_NullPassThrough ==
    /\ (persisted # Absent /\ IsNullish(ValueToEncode)) =>
            persisted = ValueToEncode
    /\ (hydrated # Absent /\ IsNullish(raw)) =>
            hydrated = IF column.transformer THEN transformFrom(raw) ELSE raw

(* a null went through the transformer of a Boolean column to the database *)
(* and came back                                                           *)
C11_Witness ==
    /\ cpc = "hydrated"
    /\ column.type = "Boolean"
    /\ column.transformer
    /\ value = transformFrom(Null)
    /\ persisted = Null
    /\ hydrated = transformFrom(Null)

RECURSIVE LiteralElementsFrom(_, _, _)
(* the elements of the inside of a PostgreSQL array literal: a comma        *)
(* separates two elements only outside double quotes, and inside them a    *)
(* backslash takes the next character with it                              *)
LiteralElementsFrom(text, inQuotes, piece) ==
    IF text = <<>> THEN <<piece>>
    ELSE IF inQuotes /\ Head(text) = "\\" /\ Len(text) >= 2
    THEN LiteralElementsFrom(SubSeq(text, 3, Len(text)), TRUE,
                             piece \o <<text[1], text[2]>>)
    ELSE IF Head(text) = "\""
    THEN LiteralElementsFrom(Tail(text), ~inQuotes, Append(piece, Head(text)))
    ELSE IF Head(text) = "," /\ ~inQuotes
    THEN <<piece>> \o LiteralElementsFrom(Tail(text), FALSE, <<>>)
    ELSE LiteralElementsFrom(Tail(text), inQuotes, Append(piece, Head(text)))

LiteralElements(text) ==
    IF Len(text) <= 2 THEN <<>>
    ELSE LiteralElementsFrom(SubSeq(text, 2, Len(text) - 1), FALSE, <<>>)

(* the element a quoted or bare element text stands for *)
ElementText(element) ==
    IF element # <<>> /\ Head(element) = "\""
    THEN unescapeString(SubSeq(element, 2, Len(element) - 1))
    ELSE element

(* the member of the enum list an element text denotes: the number when    *)
(* the text is an integer that is in the list, the text itself otherwise   *)
ElementValue(text, enum) ==
    IF /\ text # <<>>
       /\ \A k \in 1..Len(text) : IsDigit(text[k])
       /\ \E k \in 1..Len(enum) : enum[k] = Num(DigitsValue(text, 0))
    THEN Num(DigitsValue(text, 0))
    ELSE Str(text)

EnumArrayRead ==
    /\ cpc = "hydrated"
    /\ column.type \in EnumTypes
    /\ column.isArray
    /\ ~column.transformer
    /\ TypeOf(raw) = "string"

(* C12: for an array enum column, the decoding of an array literal is the  *)
(* sequence of its elements: the empty list for the empty literal, one     *)
(* element for each quoted element, unquoted and unescaped, and a number   *)
(* for exactly the elements whose integer value is in the enum list.       *)
C12_EnumArrayDecode ==
    EnumArrayRead =>
        hydrated =
            Arr([k \in 1..Len(LiteralElements(raw.s)) |->
                    ElementValue(ElementText(LiteralElements(raw.s)[k]),
                                 column.enum)])

(* the same, for the literals in which no quoted element holds a comma *)
EnumArrayDecodeWithoutQuotedComma ==
    (EnumArrayRead /\ Len(LiteralElements(raw.s)) = Len(Split(SliceInner(raw.s), ",")))
        => C12_EnumArrayDecode

(* a member of the enum list of a scalar enum column was written and read  *)
(* back                                                                    *)
EnumRoundTripDone ==
    /\ cpc = "hydrated"
    /\ column.type \in EnumTypes
    /\ ~column.isArray
    /\ ~column.transformer
    /\ TypeOf(value) \in {"string", "number"}

(* C13: for a scalar enum column, a member of the enum list is written as  *)
(* its string form and read back as itself, a number as that number and a  *)
(* string as that string, whether the list holds strings, integers or both. *)
C13_EnumRoundTrip ==
    EnumRoundTripDone =>
        /\ persisted = Str(IF TypeOf(value) = "string" THEN value.s
                           ELSE IntToText(value.n))
        /\ hydrated = value

(* the same, for the members that are not a string of digits *)
EnumRoundTripOfNonNumericStrings ==
    (EnumRoundTripDone /\ ~(TypeOf(value) = "string" /\ IsNumeric(value)))
        => C13_EnumRoundTrip

(* a list of tuples and nulls was given to a cube array column *)
CubeArrayWritten ==
    /\ persisted # Absent
    /\ column.type = "cube"
    /\ column.isArray
    /\ TypeOf(ValueToEncode) = "array"

(* an array literal was read for a cube array column *)
CubeArrayRead ==
    /\ cpc = "hydrated"
    /\ column.type = "cube"
    /\ column.isArray
    /\ ~column.transformer
    /\ TypeOf(raw) = "string"

(* the literal of a list of tuples and nulls: each tuple a quoted comma    *)
(* list in parentheses, each null the unquoted token NULL                  *)
CubeArrayLiteralOf(items) ==
    <<"{">>
        \o Join([k \in 1..Len(items) |->
                    IF IsNullish(items[k]) THEN NullToken
                    ELSE <<"\"", "(">>
                             \o Join([c \in 1..Len(items[k].items) |->
                                         ToText(items[k].items[c])], <<",">>)
                             \o <<")", "\"">>],
                <<",">>)
        \o <<"}">>

(* the entry an element of a cube array literal stands for *)
CubeEntryOf(element) ==
    IF element = NullToken THEN Undefined
    ELSE CubeTuple(RemoveParentheses(ElementText(element)))

(* C14: the cube array codec keeps the positions of a sparse list: a list  *)
(* is written as the quoted tuples and unquoted NULLs in curly braces, and *)
(* a literal of n elements is read as n entries, entry i the numeric tuple *)
(* of element i, or an absent value when element i is NULL, negative and   *)
(* fractional coordinates included.                                        *)
C14_CubeArrayCodec ==
    /\ CubeArrayWritten =>
           persisted = Str(CubeArrayLiteralOf(ValueToEncode.items))
    /\ CubeArrayRead =>
           hydrated = Arr([k \in 1..Len(LiteralElements(raw.s)) |->
                              CubeEntryOf(LiteralElements(raw.s)[k])])

(* the same, for the lists without a null entry and the literals without   *)
(* a minus sign                                                            *)
CubeArrayCodecOfDenseAndUnsigned ==
    /\ (CubeArrayWritten
          /\ \A k \in 1..Len(ValueToEncode.items) : ~IsNullish(ValueToEncode.items[k]))
        => persisted = Str(CubeArrayLiteralOf(ValueToEncode.items))
    /\ (CubeArrayRead /\ ~Contains(raw.s, "-"))
        => hydrated = Arr([k \in 1..Len(LiteralElements(raw.s)) |->
                              CubeEntryOf(LiteralElements(raw.s)[k])])

(* a literal with NULL between two tuples is read with the positions kept *)
CubeArraySparseRead ==
    /\ CubeArrayRead
    /\ Len(hydrated.items) = 3
    /\ hydrated.items[2] = Undefined
    /\ hydrated.items[3] = Arr(<<Dec(1, <<"5">>)>>)

(* a label path was given to an ltree column *)
LtreeWritten ==
    /\ persisted # Absent
    /\ column.type = "ltree"
    /\ TypeOf(ValueToEncode) = "string"

RECURSIVE UnderscoredFrom(_, _)
(* a segment with one underscore in place of each run of white space;      *)
(* `inRun` tells that the character before was white space                 *)
UnderscoredFrom(segment, inRun) ==
    IF segment = <<>> THEN <<>>
    ELSE IF Head(segment) \in WhiteSpace
    THEN (IF inRun THEN <<>> ELSE <<"_">>) \o UnderscoredFrom(Tail(segment), TRUE)
    ELSE <<Head(segment)>> \o UnderscoredFrom(Tail(segment), FALSE)

(* the non-empty segments of a path, each underscored *)
PathSegments(text) ==
    LET segments == Split(text, ".")
        kept == {k \in 1..Len(segments) : segments[k] # <<>>}
        Nth(n) == CHOOSE k \in kept : Cardinality({j \in kept : j <= k}) = n
    IN  [n \in 1..Cardinality(kept) |-> UnderscoredFrom(segments[Nth(n)], FALSE)]

(* C15: an ltree value is written as its non-empty segments joined by      *)
(* single dots, each run of white space replaced by one underscore; the    *)
(* result has no empty segment and no white space, and writing it again    *)
(* leaves it unchanged.                                                    *)
C15_LtreeEncoding ==
    LtreeWritten =>
        /\ persisted = Str(Join(PathSegments(ValueToEncode.s), <<".">>))
        /\ \A k \in 1..Len(persisted.s) : persisted.s[k] \notin WhiteSpace
        /\ persisted.s # <<>> =>
              \A k \in 1..Len(Split(persisted.s, ".")) :
                 Split(persisted.s, ".")[k] # <<>>
        /\ PersistentEncoding(persisted, column) = persisted

(* a path with a run of white space and an empty segment was written *)
C15_Witness ==
    /\ LtreeWritten
    /\ value = Str(<<"a", " ", "\t", "b", ".", ".", "c">>)
    /\ persisted = Str(<<"a", "_", "b", ".", "c">>)

(* C16: a Boolean column writes true as 1 and false as 0, and reads every   *)
(* stored value that is not null as a boolean: true for a native true or a *)
(* non-zero integer, false for a native false or 0; so a boolean written   *)
(* and read back is itself.                                                *)
C16_BooleanCodec ==
    (column.type = "Boolean" /\ ~column.transformer) =>
        /\ (persisted # Absent /\ TypeOf(value) = "boolean") =>
               persisted = Num(IF value = Bool(TRUE) THEN 1 ELSE 0)
        /\ (hydrated # Absent /\ TypeOf(raw) \in {"boolean", "number"}) =>
               hydrated = Bool(raw \notin {Bool(FALSE), Num(0)})
        /\ (cpc = "hydrated" /\ TypeOf(value) = "boolean") => hydrated = value

(* false was written as 0 and read back as false; the stored values read   *)
(* alone include an integer other than 0 and 1                             *)
C16_Witness ==
    /\ cpc = "hydrated"
    /\ column.type = "Boolean"
    /\ ~column.transformer
    /\ value = Bool(FALSE)
    /\ persisted = Num(0)
    /\ hydrated = Bool(FALSE)

(* an integer other than 0 and 1 was read as true *)
BooleanReadOfTwo ==
    /\ column.type = "Boolean"
    /\ raw = Num(2)
    /\ hydrated = Bool(TRUE)

-----------------------------------------------------------------------------
(* Properties of build(): single-table and plain inheritance.              *)

(* the roots of single-table inheritance: the entities with pattern STI    *)
(* that are not entity-child                                               *)
StiRoots ==
    {i \in 1..Len(ems) :
        ems[i].inheritancePattern = "STI" /\ ems[i].tableType # "entity-child"}

(* the classes declared as entity-child tables below the class `target` *)
EntityChildClasses(target) ==
    {storage0.tables[k].target :
        k \in {j \in 1..Len(storage0.tables) :
                  /\ storage0.tables[j].type = "entity-child"
                  /\ IsInherited(storage0.tables[j].target, target)}}

(* the declarations of storage.columns made on one of the classes *)
ColumnDeclarationsOn(classes) ==
    {k \in 1..Len(storage0.columns) : storage0.columns[k].target \in classes}

(* the columns of entity i made for the declaration k *)
ColumnsOfDeclaration(i, k) ==
    {c \in Range(ems[i].columns) :
        /\ c # 0
        /\ cols[c].target = storage0.columns[k].target
        /\ cols[c].propertyName = storage0.columns[k].propertyName
        /\ ~cols[c].isVirtual}

(* C17: after build(), in a single-table root every column declared on one *)
(* of its entity-child classes is there and nullable, and every column     *)
(* declared on the root class or its ancestors keeps its declared          *)
(* nullability.                                                            *)
C17_ChildColumnsNullableInRoot ==
    Returned =>
        \A i \in StiRoots :
            /\ \A k \in ColumnDeclarationsOn(EntityChildClasses(ems[i].target)) :
                  /\ ColumnsOfDeclaration(i, k) # {}
                  /\ \A c \in ColumnsOfDeclaration(i, k) : cols[c].isNullable
            /\ \A k \in ColumnDeclarationsOn(Range(GetInheritanceTree(ems[i].target))) :
                  \A c \in ColumnsOfDeclaration(i, k) :
                      cols[c].isNullable = storage0.columns[k].nullable

(* a returned root with a child column declared not nullable, and with one *)
(* root column declared nullable and one declared not nullable             *)
C17_Witness ==
    /\ Returned
    /\ \E i \in StiRoots :
          /\ \E k \in ColumnDeclarationsOn(EntityChildClasses(ems[i].target)) :
                /\ ~storage0.columns[k].nullable
                /\ \E c \in ColumnsOfDeclaration(i, k) : cols[c].isNullable
          /\ \E k, l \in ColumnDeclarationsOn({ems[i].target}) :
                /\ storage0.columns[k].nullable
                /\ ~storage0.columns[l].nullable
                /\ ColumnsOfDeclaration(i, k) # {}
                /\ ColumnsOfDeclaration(i, l) # {}

(* the entities that declare an inheritance with a discriminator column *)
DiscriminatorDeclarers ==
    {i \in 1..Len(ems) :
        /\ FindInheritanceType(ems[i].target) # 0
        /\ storage.inheritances[FindInheritanceType(ems[i].target)].column.def}

DiscriminatorNameOf(i) ==
    DiscriminatorColumnName(storage.inheritances[FindInheritanceType(ems[i].target)])

(* the positions of the own columns of entity i flagged as discriminator *)
FlaggedOwnColumns(i) ==
    {p \in 1..Len(ems[i].ownColumns) :
        ems[i].ownColumns[p] # 0 /\ cols[ems[i].ownColumns[p]].isDiscriminator}

(* a column of the discriminator's name is declared in the tree of entity i *)
DiscriminatorIsDeclared(i) ==
    \E k \in 1..Len(storage0.columns) :
        /\ Contains(ems[i].inheritanceTree, storage0.columns[k].target)
        /\ storage0.columns[k].propertyName = DiscriminatorNameOf(i)

(* C18: after build(), an entity that declares a discriminator has exactly *)
(* one own column flagged as discriminator, of the discriminator's name    *)
(* (default "type"): the declared own column of that name, flagged in      *)
(* place, or else the one virtual column synthesized for it; and every     *)
(* single-table child of the entity holds that very column exactly once    *)
(* in its own columns.                                                     *)
C18_OneDiscriminatorColumn ==
    Returned =>
        \A i \in DiscriminatorDeclarers :
            /\ Cardinality(FlaggedOwnColumns(i)) = 1
            /\ \A p \in FlaggedOwnColumns(i) :
                  LET d == ems[i].ownColumns[p]
                  IN  /\ cols[d].propertyName = DiscriminatorNameOf(i)
                      /\ cols[d].isVirtual = ~DiscriminatorIsDeclared(i)
                      /\ Cardinality(ColumnsNamed(ems[i].ownColumns,
                                                  DiscriminatorNameOf(i))) = 1
                      /\ \A j \in EntityChildren :
                            ems[j].parentEntityMetadata = i =>
                                Cardinality({q \in 1..Len(ems[j].ownColumns) :
                                                ems[j].ownColumns[q] = d}) = 1

(* a returned root whose declared column "type" was flagged in place and   *)
(* is held once by a single-table child                                    *)
C18_Witness ==
    /\ Returned
    /\ \E i \in DiscriminatorDeclarers :
          /\ DiscriminatorIsDeclared(i)
          /\ \E p \in FlaggedOwnColumns(i) : ~cols[ems[i].ownColumns[p]].isVirtual
          /\ \E j \in EntityChildren :
                /\ ems[j].parentEntityMetadata = i
                /\ \E q \in 1..Len(ems[j].ownColumns) :
                      cols[ems[j].ownColumns[q]].isDiscriminator

(* a returned root with a synthesized discriminator column named "kind" *)
SynthesizedDiscriminator ==
    /\ Returned
    /\ \E i \in DiscriminatorDeclarers :
          /\ DiscriminatorNameOf(i) = "kind"
          /\ \E p \in FlaggedOwnColumns(i) : cols[ems[i].ownColumns[p]].isVirtual
          /\ \E j \in EntityChildren : ems[j].parentEntityMetadata = i

(* the entities in a single-table context: the roots and their children *)
StiEntities ==
    StiRoots \cup {j \in EntityChildren : ems[j].parentEntityMetadata \in StiRoots}

RECURSIVE EmbeddedsOfTree(_)
(* the embeddeds of a list and those nested in them, at every depth *)
EmbeddedsOfTree(embeddeds) ==
    IF embeddeds = <<>> THEN {}
    ELSE {Head(embeddeds)} \cup EmbeddedsOfTree(Head(embeddeds).embeddeds)
             \cup EmbeddedsOfTree(Tail(embeddeds))

(* C19: after build(), for the single-table root and each of its           *)
(* entity-child entities, every column of every embedded of the entity,    *)
(* nested at any depth, is nullable.                                       *)
C19_EmbeddedColumnsNullable ==
    Returned =>
        \A i \in StiEntities :
            \A e \in EmbeddedsOfTree(ems[i].embeddeds) :
                \A p \in 1..Len(e.columns) : cols[e.columns[p]].isNullable

(* the same, for the embeddeds the root itself lists, nested ones left out *)
TopEmbeddedColumnsNullableInRoot ==
    Returned =>
        \A i \in StiRoots :
            \A k \in 1..Len(ems[i].embeddeds) :
                \A p \in 1..Len(ems[i].embeddeds[k].columns) :
                    cols[ems[i].embeddeds[k].columns[p]].isNullable

(* a returned root with an embedded that holds a column and a nested       *)
(* embedded with a column, and a child with embeddeds of its own           *)
EmbeddedsInStiContext ==
    /\ Returned
    /\ \E i \in StiRoots :
          /\ \E e \in EmbeddedsOfTree(ems[i].embeddeds) :
                e.columns # <<>> /\ e.embeddeds # <<>>
          /\ \E j \in EntityChildren :
                ems[j].parentEntityMetadata = i /\ ems[j].embeddeds # <<>>

(* the class is the target of a declared table *)
IsTableTarget(c) == \E k \in 1..Len(storage0.tables) : storage0.tables[k].target = c

(* the regular entities without inheritance pattern whose class extends a  *)
(* class that is not an entity                                             *)
PlainEntities ==
    {i \in 1..Len(ems) :
        /\ ems[i].tableType = "regular"
        /\ ems[i].inheritancePattern = ""
        /\ proto[ems[i].target] # NoClass
        /\ ~IsTableTarget(proto[ems[i].target])}

(* two regular tables are declared on classes that extend the same         *)
(* non-entity class, and no inheritance is declared                        *)
PlainSiblingsDeclared ==
    /\ storage0.inheritances = <<>>
    /\ \E k, l \in 1..Len(storage0.tables) :
          /\ k # l
          /\ storage0.tables[k].type = "regular"
          /\ storage0.tables[l].type = "regular"
          /\ proto[storage0.tables[k].target] # NoClass
          /\ proto[storage0.tables[k].target] = proto[storage0.tables[l].target]
          /\ ~IsTableTarget(proto[storage0.tables[k].target])

(* the original declaration of a column: its class and property name *)
DeclaredNullability(c) ==
    {storage0.columns[k].nullable :
        k \in {j \in 1..Len(storage0.columns) :
                  /\ storage0.columns[j].target = cols[c].target
                  /\ storage0.columns[j].propertyName = cols[c].propertyName}}

(* C20: for two regular entities that extend the same non-entity class     *)
(* with no inheritance pattern, build() returns two entity metadatas with  *)
(* different tables; each has, for every inherited and own property,       *)
(* exactly one column, an instance of its own that the other entity does   *)
(* not hold; and every inherited column keeps its declared nullability.    *)
C20_PlainInheritanceSeparateColumns ==
    /\ PlainSiblingsDeclared => pc # "thrown"
    /\ Returned =>
          \A i, j \in PlainEntities :
              (i # j /\ proto[ems[i].target] = proto[ems[j].target]) =>
                  /\ ems[i].tableName # ems[j].tableName
                  /\ Range(ems[i].columns) \cap Range(ems[j].columns) = {}
                  /\ \A name \in DeclaredColumnNames(ems[i].inheritanceTree) :
                        /\ Cardinality(ColumnsNamed(ems[i].columns, name)) = 1
                        /\ \A p \in ColumnsNamed(ems[i].columns, name) :
                              cols[ems[i].columns[p]].entity = ems[i].name
                  /\ \A c \in Range(ems[i].columns) :
                        cols[c].target # ems[i].target =>
                            DeclaredNullability(c) = {cols[c].isNullable}

(* two returned entities that extend the same class, with three inherited  *)
(* columns each, one of them declared nullable                             *)
C20_Witness ==
    /\ Returned
    /\ PlainSiblingsDeclared
    /\ \E i, j \in PlainEntities :
          /\ i # j
          /\ proto[ems[i].target] = proto[ems[j].target]
          /\ Cardinality({c \in Range(ems[i].columns) :
                             cols[c].target = proto[ems[i].target]}) = 3
          /\ \E c \in Range(ems[i].columns) :
                cols[c].target # ems[i].target /\ cols[c].isNullable
          /\ \E c \in Range(ems[j].columns) :
                cols[c].target # ems[j].target /\ ~cols[c].isNullable

-----------------------------------------------------------------------------
(* Closure-table trees.                                                    *)

ClosureTrees == {i \in 1..Len(ems) : ems[i].treeType = "closure-table"}

ClosureJunctions ==
    {k \in 1..Len(ems) : ems[k].tableType = "closure-junction"}

(* the closure junctions of the returned set made for the table `tableName` *)
ClosureJunctionsOf(tableName) ==
    {k \in ClosureJunctions :
        ems[ems[k].parentClosureEntityMetadata].tableName = tableName}

(* every closure-table entity has a closure junction of the returned set *)
ClosureJunctionIsSet ==
    Returned =>
        \A i \in ClosureTrees :
            /\ ems[i].closureJunctionTable # 0
            /\ \E k \in ClosureJunctions :
                   ems[k].jid = ems[i].closureJunctionTable

(* C22: in the returned set every closure-table entity has its             *)
(* closureJunctionTable set to a closure junction of the set, and the set  *)
(* holds exactly one closure junction for each table that is the source of *)
(* a closure-table tree, also when a single-table child took the tree type *)
(* over from its parent.                                                   *)
C22_OneClosureJunctionPerTable ==
    Returned =>
        \A i \in ClosureTrees :
            /\ ems[i].closureJunctionTable # 0
            /\ \E k \in ClosureJunctions :
                   ems[k].jid = ems[i].closureJunctionTable
            /\ Cardinality(ClosureJunctionsOf(ems[i].tableName)) = 1

(* the same count where no single-table child has a closure-table tree *)
OneClosureJunctionWithoutChildren ==
    (Returned /\ \A i \in ClosureTrees : ~IsEntityChild(ems[i])) =>
        \A i \in ClosureTrees :
            Cardinality(ClosureJunctionsOf(ems[i].tableName)) = 1

(* a returned closure-table root with a child that declares no tree *)
ClosureTreeWithChild ==
    /\ Returned
    /\ \E i \in ClosureTrees :
           /\ IsEntityChild(ems[i])
           /\ FindTree(ems[i].target) = 0
           /\ ems[i].parentEntityMetadata \in ClosureTrees

-----------------------------------------------------------------------------
(* Termination and inheritance chains that refer back to themselves.       *)

RECURSIVE InParentChain(_, _, _)
(* i is reached from j by following parentEntityMetadata at most n times *)
InParentChain(i, j, n) ==
    IF j = 0 \/ n = 0 THEN FALSE
    ELSE IF j = i THEN TRUE
    ELSE InParentChain(i, ems[j].parentEntityMetadata, n - 1)

(* the entities whose chain of parents leads back to themselves *)
SelfReferential ==
    {i \in 1..Len(ems) :
        InParentChain(i, ems[i].parentEntityMetadata, Len(ems))}

Finished == pc \in {"done", "thrown"}

(* the position of a pass in build() *)
PassNumber(p) ==
    CASE p = "create" -> 0
      [] p = "step0" -> 1
      [] p = "step1" -> 2
      [] p = "step2" -> 3
      [] p = "inverse" -> 4
      [] p = "junction" -> 5
      [] p = "closure" -> 6
      [] p = "keys" -> 7
      [] p = "names" -> 8
      [] p = "foreignKeys" -> 9
      [] p = "generated" -> 10
      [] OTHER -> 11

(* how far the two calls of build() have come: the call, the pass and the  *)
(* position in the forEach of the pass                                     *)
Progress == <<run, PassNumber(pc), idx>>

Before(a, b) ==
    \/ a[1] < b[1]
    \/ a[1] = b[1] /\ a[2] < b[2]
    \/ a[1] = b[1] /\ a[2] = b[2] /\ a[3] < b[3]

(* every step of build() takes it further and no forEach runs past the    *)
(* array it iterates over: every build() comes to an end                   *)
BuildAdvances == [][Before(Progress, Progress')]_vars

BuildIsBounded == idx <= Len(ems) + 1

(* C24: build() terminates, and it never returns a set in which the chain  *)
(* of parents of an entity leads back to the entity: such an input ends in *)
(* an error.                                                               *)
C24_InheritanceCycleReported ==
    Returned => SelfReferential = {}

(* a build() over an input with such a chain has ended in an error *)
InheritanceCycleThrows ==
    pc = "thrown" /\ SelfReferential # {}

-----------------------------------------------------------------------------
(* The order of the passes.                                                *)

(* the passes that are a forEach with one step of the model per element *)
EntityPasses ==
    {"step1", "step2", "inverse", "junction", "closure", "keys",
     "foreignKeys", "generated"}

(* the entities step 1 has been through *)
Step1Processed == {Step1Order[k] : k \in 1..(idx - 1)}

(* the number of columns declared in the inheritance tree of an entity *)
DeclaredColumnCount(em) ==
    Len(FilterByTargetAndWithoutDuplicateProperties(storage.columns,
                                                    em.inheritanceTree))

DeclaredRelationCount(em) ==
    Len(FilterByTargetAndWithoutDuplicateProperties(storage.relations,
                                                    em.inheritanceTree))

(* step 1 is about to process an entity-child *)
Step1AtChild ==
    /\ pc = "step1"
    /\ idx <= Len(Step1Order)
    /\ IsEntityChild(ems[Step1Order[idx]])

(* a pass is left for the next one only when its forEach is through *)
PassIsComplete ==
    (pc \in EntityPasses /\ pc' \notin {pc, "thrown"}) => idx > PassLength(pc)

(* step 0 leaves every child of a parent that is no child itself with the  *)
(* table name its parent was given in the same pass                        *)
Step0ParentsFirst ==
    (pc = "step0" /\ pc' = "step1") =>
        \A i \in 1..Len(ems) :
            (/\ IsEntityChild(ems[i])
             /\ ems[i].parentEntityMetadata # 0
             /\ ~IsEntityChild(ems[ems[i].parentEntityMetadata]))
                => /\ ems'[ems[i].parentEntityMetadata].tableName # ""
                   /\ ems'[i].tableName =
                          ems'[ems[i].parentEntityMetadata].tableName

(* when step 1 processes a child, it has processed every entity that is no *)
(* child, and a parent that is no child has its own columns and relations  *)
Step1ParentsFirst ==
    Step1AtChild =>
        /\ \A j \in 1..Len(ems) :
               ~IsEntityChild(ems[j]) => j \in Step1Processed
        /\ LET parent == ems[Step1Order[idx]].parentEntityMetadata
           IN  (parent # 0 /\ ~IsEntityChild(ems[parent])) =>
                   /\ Len(ems[parent].ownColumns) >= DeclaredColumnCount(ems[parent])
                   /\ Len(ems[parent].ownRelations) = DeclaredRelationCount(ems[parent])
                   /\ \A p \in 1..Len(ems[parent].ownColumns) :
                          ems[parent].ownColumns[p] \in 1..Len(cols)

Step1ParentIsProcessed ==
    Step1AtChild =>
        (ems[Step1Order[idx]].parentEntityMetadata # 0
            => ems[Step1Order[idx]].parentEntityMetadata \in Step1Processed)

-----------------------------------------------------------------------------
(* The metadata-args storage as input of build().                          *)

(* C26: when build() has returned or thrown, every record of the           *)
(* metadata-args storage has the field values it had before the first      *)
(* call, the default of a column declaration and the column name lists of  *)
(* a foreign-key declaration included.                                     *)
C26_StorageIsReadOnly ==
    Finished => storage = storage0

(* the same for everything but the defaults of the column declarations and *)
(* the name lists of the foreign-key declarations                          *)
StorageIsReadOnlyButDefaultsAndNames ==
    Finished =>
        /\ \A f \in DOMAIN storage \ {"columns", "foreignKeys"} :
               storage[f] = storage0[f]
        /\ Len(storage.columns) = Len(storage0.columns)
        /\ \A k \in 1..Len(storage.columns) :
               [storage.columns[k] EXCEPT !.default = ""]
                   = [storage0.columns[k] EXCEPT !.default = ""]
        /\ Len(storage.foreignKeys) = Len(storage0.foreignKeys)
        /\ \A k \in 1..Len(storage.foreignKeys) :
               [storage.foreignKeys[k] EXCEPT !.columnNames = NoList,
                                              !.referencedColumnNames = NoList]
                   = [storage0.foreignKeys[k] EXCEPT
                         !.columnNames = NoList,
                         !.referencedColumnNames = NoList]

(* a build() has changed the default of a column declared on a base class *)
DefaultOverwritten ==
    /\ Finished
    /\ \E k \in 1..Len(storage.columns) :
           storage.columns[k].default # storage0.columns[k].default

(* a build() has changed a name list of a foreign-key declaration *)
ForeignKeyNamesGrown ==
    /\ Finished
    /\ \E k \in 1..Len(storage.foreignKeys) :
           storage.foreignKeys[k].columnNames
               # storage0.foreignKeys[k].columnNames

-----------------------------------------------------------------------------
(* The references of the returned set.                                     *)

(* the relations of the entities of the set *)
RelationsOfSet ==
    UNION {Range(ems[i].relations) : i \in 1..Len(ems)} \ {0}

(* the junctions registered on relations of the set are in the set *)
JunctionsAreReturned ==
    \A r \in RelationsOfSet :
        rels[r].junctionEntityMetadata # 0
            => JunctionInReturnedSet(rels[r].junctionEntityMetadata)

(* closure junctions, inverse entities and parents are in the set *)
OtherReferencesAreReturned ==
    /\ \A i \in 1..Len(ems) :
           ems[i].closureJunctionTable # 0
               => \E k \in 1..Len(ems) :
                      /\ ems[k].tableType = "closure-junction"
                      /\ ems[k].jid = ems[i].closureJunctionTable
    /\ \A r \in RelationsOfSet :
           rels[r].inverseEntityMetadata \in 1..Len(ems)
    /\ \A i \in 1..Len(ems) :
           IsEntityChild(ems[i]) => ems[i].parentEntityMetadata \in 1..Len(ems)

(* C27: every junction entity metadata registered on a many-to-many        *)
(* relation of a returned entity, every closureJunctionTable, every        *)
(* relation's inverseEntityMetadata and every entity-child's               *)
(* parentEntityMetadata is a member of the returned set.                   *)
C27_ReturnedSetIsClosed ==
    Returned => (JunctionsAreReturned /\ OtherReferencesAreReturned)

(* the same without the junctions of the many-to-many relations *)
ReturnedSetIsClosedButJunctions ==
    Returned => OtherReferencesAreReturned

(* the junctions too, where no user-defined table has a junction's name *)
JunctionsAreReturnedWithoutSameNamedTable ==
    (Returned /\ \A j \in 1..Len(junctions) :
                     ~SameNamedUserTable(junctions[j].tableName))
        => JunctionsAreReturned

(* a returned set with a closure junction, a resolved relation and a child *)
ReferencesOfEveryKind ==
    /\ Returned
    /\ \/ \E i \in 1..Len(ems) : ems[i].closureJunctionTable # 0
       \/ /\ RelationsOfSet # {}
          /\ \E i \in 1..Len(ems) : IsEntityChild(ems[i])

-----------------------------------------------------------------------------
(* Generated columns.                                                      *)

(* the strategies of the generated columns of an entity *)
GenerationStrategies(i) ==
    {cols[c].generationStrategy :
        c \in {c \in Range(ems[i].columns) : cols[c].isGenerated}}

(* C30: in the returned set hasUUIDGeneratedColumns of an entity is true   *)
(* iff one of its columns has the generation strategy uuid, as the uuid    *)
(* check of the extensions finds it; with generated columns of the         *)
(* strategies increment, identity or rowid only, it is false.              *)
C30_HasUuidGeneratedColumns ==
    Returned =>
        \A i \in 1..Len(ems) :
            /\ ems[i].hasUUIDGeneratedColumns
                   <=> \E c \in Range(ems[i].columns) :
                           cols[c].generationStrategy = "uuid"
            /\ ems[i].hasUUIDGeneratedColumns <=> HasUuidColumns(ems[i], cols)

(* the flag is true iff the entity has a generated column of any strategy *)
HasUuidGeneratedColumnsIsHasGenerated ==
    Returned =>
        \A i \in 1..Len(ems) :
            ems[i].hasUUIDGeneratedColumns <=> GenerationStrategies(i) # {}

(* a returned entity with the flag set and no uuid column *)
FlagWithoutUuidColumn ==
    /\ Returned
    /\ \E i \in 1..Len(ems) :
           /\ ems[i].hasUUIDGeneratedColumns
           /\ GenerationStrategies(i) # {}
           /\ GenerationStrategies(i) \subseteq {"increment", "identity", "rowid"}
           /\ ~HasUuidColumns(ems[i], cols)

-----------------------------------------------------------------------------
(* Type names.                                                             *)

SupportedTypes ==
    {StringType(supportedDataTypes[k]) : k \in 1..Len(supportedDataTypes)}

(* the aliases the description of normalizeType names, with their          *)
(* canonical names                                                         *)
NamedAliases ==
    {<<StringType("varchar"), "character varying">>,
     <<ClassType("String"), "character varying">>,
     <<StringType("int"), "integer">>,
     <<StringType("int4"), "integer">>,
     <<ClassType("Number"), "integer">>,
     <<StringType("timestamp"), "timestamp without time zone">>,
     <<ClassType("Date"), "timestamp without time zone">>,
     <<StringType("timestamptz"), "timestamp with time zone">>}

AliasesAreMapped ==
    tpc \in {"once", "twice"} =>
        \A a \in NamedAliases :
            columnType = a[1] => normalized = StringType(a[2])

NormalizeIsIdempotent == tpc = "twice" => renormalized = normalized

SupportedStaysSupported ==
    tpc \in {"once", "twice"} /\ columnType \in SupportedTypes =>
        normalized \in SupportedTypes

(* C23: normalizeType maps the aliases to their canonical names (varchar   *)
(* and String to "character varying", int, int4 and Number to "integer",   *)
(* timestamp and Date to "timestamp without time zone", timestamptz to     *)
(* "timestamp with time zone"), applying it to its own result gives the    *)
(* same result, and a supported type is normalized to a supported type.    *)
C23_NormalizeTypeIsCanonical ==
    /\ AliasesAreMapped
    /\ NormalizeIsIdempotent
    /\ SupportedStaysSupported

(* an alias has been normalized twice *)
AliasNormalizedTwice ==
    /\ tpc = "twice"
    /\ columnType = StringType("int")
    /\ normalized = StringType("integer")
    /\ renormalized = StringType("integer")

-----------------------------------------------------------------------------
(* Query parameters.                                                       *)

(* the numbers n of the placeholders $n in a text "$n" or "$n, $m, ..." *)
PlaceholderNumbers(text) ==
    IF text = <<>> THEN <<>>
    ELSE Map(Split(text, ","),
             LAMBDA part : DigitsValue(SelectSeq(part, IsDigit), 0))

(* the value of the own key `key` of the parameters of the query *)
ParameterValue(key) ==
    LET entries == OrEmpty(query.parameters)
    IN  entries[FindIndex(entries, LAMBDA e : e.key = key)].value

IsOwnKey(key) == \E e \in Range(OrEmpty(query.parameters)) : e.key = key

Escaped == qpc = "done" /\ ~escaped.thrown

PiecesOf(kind) == {k \in 1..Len(escaped.pieces) : escaped.pieces[k].kind = kind}

RECURSIVE PiecesFull(_)
PiecesFull(pieces) ==
    IF pieces = <<>> THEN <<>>
    ELSE Head(pieces).full \o PiecesFull(Tail(pieces))

(* the array starts with the values of the native parameters *)
NativeParametersFirst ==
    LET native == query.nativeParameters
    IN  /\ Len(escaped.parameters) >= Len(native)
        /\ \A k \in 1..Len(native) : escaped.parameters[k] = native[k].value

(* a placeholder refers to the position that holds the parameter's value *)
PlaceholdersRefer ==
    /\ \A k \in PiecesOf("param") :
          LET piece == escaped.pieces[k]
              n == PlaceholderNumbers(piece.text)
          IN  /\ Len(n) = 1
              /\ piece.text = <<"$">> \o IntToText(n[1])
              /\ n[1] \in 1..Len(escaped.parameters)
              /\ escaped.parameters[n[1]] = ParameterValue(piece.key)
    /\ \A k \in PiecesOf("spread") :
          LET piece == escaped.pieces[k]
              n == PlaceholderNumbers(piece.text)
              items == ParameterValue(piece.key).items
          IN  /\ Len(n) = Len(items)
              /\ \A j \in 1..Len(n) :
                    /\ n[j] \in 1..Len(escaped.parameters)
                    /\ escaped.parameters[n[j]] = items[j]

(* a parameter that is not spread is pushed once, whatever the number of   *)
(* its occurrences, and a function is not pushed                           *)
PushedOnce ==
    /\ \A k, l \in PiecesOf("param") :
          escaped.pieces[k].key = escaped.pieces[l].key =>
              escaped.pieces[k].text = escaped.pieces[l].text
    /\ Len(escaped.parameters) =
          Len(query.nativeParameters)
              + Cardinality({escaped.pieces[k].key : k \in PiecesOf("param")})
              + Len(PiecesText([k \in 1..Len(escaped.pieces) |->
                        IF escaped.pieces[k].kind = "spread"
                        THEN [text |-> ParameterValue(escaped.pieces[k].key).items]
                        ELSE [text |-> <<>>]]))

(* a name stays as it is iff it is not an own key; a function is inlined *)
OthersKept ==
    /\ \A k \in PiecesOf("kept") :
          /\ ~IsOwnKey(escaped.pieces[k].key)
          /\ escaped.pieces[k].text = escaped.pieces[k].full
    /\ \A k \in PiecesOf("text") :
          escaped.pieces[k].text = escaped.pieces[k].full
    /\ \A k \in PiecesOf("inline") :
          /\ TypeOf(ParameterValue(escaped.pieces[k].key)) = "function"
          /\ escaped.pieces[k].text = ParameterValue(escaped.pieces[k].key).s
    /\ \A k \in PiecesOf("param") \cup PiecesOf("spread") \cup PiecesOf("inline") :
          IsOwnKey(escaped.pieces[k].key)

(* C28: the parameter array starts with the native parameters' values in   *)
(* key order; every placeholder $n written into the SQL refers to the      *)
(* position n of the array, counted from 1, and that position holds the    *)
(* value of the parameter it replaces; a parameter that is not spread and  *)
(* occurs several times is pushed once and gets the same $n each time; a   *)
(* name that is not an own key of the parameters stays unchanged; a        *)
(* function is inlined as what it returns and adds no entry.               *)
C28_PlaceholdersReferToTheirValues ==
    Escaped =>
        /\ NativeParametersFirst
        /\ IF escaped.replaced
           THEN /\ PiecesFull(escaped.pieces) = query.sql
                /\ PiecesText(escaped.pieces) = escaped.sql
                /\ PlaceholdersRefer
                /\ PushedOnce
                /\ OthersKept
           ELSE /\ escaped.sql = query.sql
                /\ Len(escaped.parameters) = Len(query.nativeParameters)

(* a parameter occurs twice after the native parameters, next to a name    *)
(* that is not a key                                                       *)
ParameterEscapedTwice ==
    /\ Escaped
    /\ query.nativeParameters # <<>>
    /\ query.sql = <<":", "a", ":", "b", ":", "a">>
    /\ escaped.sql = <<"$", "3", ":", "b", "$", "3">>
    /\ Len(escaped.parameters) = 3
    /\ escaped.parameters[3] = Num(7)

(* the elements of an array and a function *)
ArraySpread ==
    /\ Escaped
    /\ PiecesOf("spread") # {}
    /\ \E k \in PiecesOf("spread") : Len(escaped.pieces[k].text) > 2

FunctionInlined == Escaped /\ PiecesOf("inline") # {} /\ PiecesOf("param") # {}

-----------------------------------------------------------------------------
(* Extensions.                                                             *)

AttemptedExtensions == Map(attempted, LAMBDA a : a.extension)

RequiredExtensions ==
    Filter(Extensions, LAMBDA e : e \in options.extensionsMetadata)

FailedWarnings ==
    Map(Filter(attempted, LAMBDA a : a.failed), LAMBDA a : Warn(a.extension))

(* enableExtensions has been entered and afterConnect is over *)
ExtensionsEnabled == call.method # "afterConnect" /\ attempted # <<>>

(* C21: when the installation of a required extension fails in             *)
(* afterConnect, an entry of level "warn" is logged and the failure is not *)
(* thrown on: every other required extension is still attempted, in the    *)
(* order of enableExtensions, afterConnect ends normally and the           *)
(* connection it obtained is released exactly once.                        *)
C21_ExtensionFailureIsLogged ==
    /\ logged = FailedWarnings
    /\ released <= 1
    /\ call.method = "afterConnect" /\ call.step # "start" => released = 0
    /\ ExtensionsEnabled =>
          /\ AttemptedExtensions = RequiredExtensions
          /\ released = 1
          /\ outcome.method = "afterConnect" => outcome.result = "ok"

(* an installation failed, others were attempted after it, and             *)
(* afterConnect has ended normally                                         *)
FailedExtensionThenOthers ==
    /\ ExtensionsEnabled
    /\ outcome = Outcome("afterConnect", "ok")
    /\ Len(attempted) = 4
    /\ attempted[1].failed
    /\ ~attempted[2].failed
    /\ attempted[3].failed
    /\ Len(logged) >= 2
    /\ released = 1

-----------------------------------------------------------------------------
(* Connecting and disconnecting.                                           *)

DriverState == <<master, slaves, pools, connectedQueryRunners, options>>

(* disconnect() without a master throws and changes nothing *)
DisconnectWithoutMasterThrows ==
    call = Call("disconnect", "start") /\ master = 0 =>
        /\ outcome' = Outcome("disconnect", "ConnectionIsNotSetError")
        /\ call' = NoCall
        /\ DriverState' = DriverState

(* obtainMasterConnection() without a master throws *)
ObtainWithoutMasterThrows ==
    /\ call = Call("obtainMasterConnection", "start") /\ master = 0 =>
          outcome' = Outcome("obtainMasterConnection", "Driver not Connected")
    /\ call = Call("afterConnect", "start") /\ master = 0 =>
          outcome' = Outcome("afterConnect", "Driver not Connected")

(* no pool is ended while a query runner is connected *)
RunnersReleasedFirst ==
    \A p \in 1..Len(pools) :
        pools[p] = "open" /\ pools'[p] = "ended" => connectedQueryRunners = 0

(* a disconnect() that succeeds has ended the master and the slaves and    *)
(* leaves none of them set                                                 *)
DisconnectEndsPools ==
    call.method = "disconnect" /\ outcome' = Outcome("disconnect", "ok")
            /\ call' = NoCall =>
        /\ pools'[master] = "ended"
        /\ \A k \in 1..Len(slaves) : pools'[slaves[k]] = "ended"
        /\ connectedQueryRunners' = 0
        /\ master' = 0
        /\ slaves' = <<>>

(* after a disconnect() that succeeded nothing but connect() sets a master *)
DisconnectedStays == outcome = Outcome("disconnect", "ok") => master = 0

(* C29: disconnect() throws ConnectionIsNotSetError and changes no state   *)
(* when the master is not set; a disconnect() that succeeds releases every *)
(* connected query runner before it ends a pool, ends the master pool and  *)
(* every slave pool and leaves the master undefined and the slaves empty,  *)
(* so that a second disconnect() throws; obtainMasterConnection() throws   *)
(* "Driver not Connected" when the master is not set.                      *)
C29_DisconnectClosesEverything ==
    [][/\ DisconnectWithoutMasterThrows
       /\ ObtainWithoutMasterThrows
       /\ RunnersReleasedFirst
       /\ DisconnectEndsPools
       /\ DisconnectedStays]_vars

(* a master and two slaves have been ended and a second disconnect() has   *)
(* thrown                                                                  *)
SecondDisconnectThrows ==
    /\ outcome = Outcome("disconnect", "ConnectionIsNotSetError")
    /\ call = NoCall
    /\ master = 0
    /\ slaves = <<>>
    /\ Len(pools) = 3
    /\ \A p \in 1..Len(pools) : pools[p] = "ended"

====
